---- MODULE Spec2Model ----
(***************************************************************************)
(* Reed-Solomon erasure coding library (bpfs/reedsolomon16): the in-memory *)
(* codec, the block-by-block stream adaptor of both backends and the       *)
(* facade that dispatches to them.                                         *)
(*                                                                         *)
(* Bytes are BitsPerByte bits wide.  The 8-bit backend works over the      *)
(* field with one byte per element, the 16-bit backend over the field with *)
(* two bytes per element (low bytes in the first half of every 64-byte     *)
(* chunk, high bytes in the second).  The Leopard codec itself             *)
(* (leopard.go, leopard8.go) is not among the sources; it is modelled from *)
(* the specification as a systematic MDS code with erasure decoding by the *)
(* error locator and its formal derivative.                                *)
(***************************************************************************)
EXTENDS Integers, Sequences, FiniteSets, TLC

VARIABLES
    k,          \* dataShards of the codec instance
    m,          \* parityShards of the codec instance
    backend,    \* 8 (rsFF8) or 16 (rsFF16)
    phase,      \* position of the caller in its scenario
    err,        \* error value returned by the last call ("nil" for none)
    vres,       \* result of the last Verify / StreamVerify, or NoResult
    shards,     \* in-memory shard array handed to the codec
    orig,       \* the codeword left by Encode
    pre,        \* the shard array as it was before the last call
    flip,       \* <<shard, position, bit>> of the corrupted bit
    raw,        \* the bytes handed to StreamSplit (empty if none)
    data,       \* contents of the k data shard streams
    parity,     \* contents of the m parity shard streams
    absent,     \* positions (1-based) whose input stream is nil
    writers,    \* the output list of the last call: TRUE for a writer, FALSE for nil
    outs,       \* bytes received by each output of the last call
    joined,     \* bytes received by the destination of StreamJoin
    seekable,   \* whether the readers handed to StreamJoin implement io.Seeker
    argSize,    \* the size argument of the last StreamSplit or StreamJoin
    handed,     \* number of input streams handed to the last call
    failing,    \* position (1-based) of the writer that fails in the last call, 0 if none
    dstNil,     \* whether the destination of the last StreamJoin was nil
    reads,      \* positions (1-based) of the streams the last StreamJoin read from;
                \* after StreamSplit, the shards for which it read its source
    kern,       \* the kernel call under test: its operands and what it left in them
    blocks,     \* the iterations of the block loop of the last stream call: what
                \* the reads returned, the size, the shard array handed to the codec
    call        \* the call of the 8-bit stream adaptor in progress: its position,
                \* its block buffer, its read and write tasks and their channel

cfgVars == <<k, m, backend>>
memVars == <<shards, orig, pre, flip>>
argVars == <<argSize, handed, failing, dstNil, reads>>
strVars == <<raw, data, parity, absent, writers, outs, joined, seekable, argVars>>
auxVars == <<kern, blocks, call>>
vars == <<k, m, backend, phase, err, vres, shards, orig, pre, flip,
          raw, data, parity, absent, writers, outs, joined, seekable,
          argSize, handed, failing, dstNil, reads, kern, blocks, call>>

----------------------------------------------------------------------------
(* Bounds of the model *)

\* width of a byte in bits (8 in the program)
BitsPerByte == 2

\* the stream block size in units of the 64-byte alignment (65536 in the
\* program: blockSize = 4 MiB)
BlockUnits == 2

\* number of distinct byte patterns used as shard contents
NumSeeds == 2

(* Program constants *)

\* SIMD alignment of shard sizes
Align == 64

\* join: below this size the shards are read one after another
SmallJoin == 1000

\* join: up to this size seekable shards are read through one io.MultiReader
SmallFileThreshold == 10485760

BlockSize == BlockUnits * Align

Byte == 0 .. (2 ^ BitsPerByte - 1)

NoResult == [ok |-> FALSE, err |-> "none"]

----------------------------------------------------------------------------
(* Sequences of bytes *)

Min(a, b) == IF a < b THEN a ELSE b
Max(a, b) == IF a > b THEN a ELSE b

Zeros(n) == [j \in 1 .. n |-> 0]

Take(s, n) == SubSeq(s, 1, n)

Drop(s, n) == SubSeq(s, n + 1, Len(s))

\* make([]byte, n) followed by copy(new, s)
PadTo(s, n) == [j \in 1 .. n |-> IF j <= Len(s) THEN s[j] ELSE 0]

\* ((x + 63) / 64) * 64
AlignUp(x) == ((x + (Align - 1)) \div Align) * Align

\* contents of shard i under pattern seed s
Pat(s, i, n) == [j \in 1 .. n |-> (s + i + j + (j \div 5)) % (2 ^ BitsPerByte)]

----------------------------------------------------------------------------
(* Field arithmetic: GF(2^w), addition is XOR, multiplication modulo the   *)
(* field polynomial.                                                       *)

Bit(a, i) == (a \div (2 ^ i)) % 2

\* widest element: two bytes
MaxElt == 2 ^ (2 * BitsPerByte) - 1

XorBits(a, b) ==
    LET RECURSIVE go(_)
        go(i) == IF i < 0 THEN 0
                 ELSE ((Bit(a, i) + Bit(b, i)) % 2) * (2 ^ i) + go(i - 1)
    IN go(2 * BitsPerByte - 1)

XorT == [a \in 0 .. MaxElt |-> [b \in 0 .. MaxElt |-> XorBits(a, b)]]

Xor(a, b) == XorT[a][b]

\* field polynomial of GF(2^w)
Poly(w) == CASE w = 2 -> 7
             [] w = 3 -> 11
             [] w = 4 -> 19
             [] w = 6 -> 67
             [] w = 8 -> 285
             [] OTHER -> 0

\* shift-and-add product of a and b in GF(2^w)
MulBits(a, b, w) ==
    LET RECURSIVE go(_, _, _)
        go(x, i, acc) ==
            IF i = w THEN acc
            ELSE LET acc2 == IF Bit(b, i) = 1 THEN XorBits(acc, x) ELSE acc
                     x2   == 2 * x
                     x3   == IF x2 >= 2 ^ w THEN XorBits(x2, Poly(w)) ELSE x2
                 IN go(x3, i + 1, acc2)
    IN go(a, 0, 0)

\* element width of a backend in bits
Width(be) == IF be = 8 THEN BitsPerByte ELSE 2 * BitsPerByte

Elts(be) == 0 .. (2 ^ Width(be) - 1)

MulT == [be \in {8, 16} |->
            [a \in Elts(be) |-> [b \in Elts(be) |-> MulBits(a, b, Width(be))]]]

Mul(be, a, b) == MulT[be][a][b]

InvT == [be \in {8, 16} |->
            [a \in Elts(be) \ {0} |-> CHOOSE b \in Elts(be) : MulT[be][a][b] = 1]]

Inv(be, a) == InvT[be][a]

\* evaluation point of shard position i (0-based)
Point(i) == i

\* product of (x - Point(l)) over the positions l of the set S
RECURSIVE ProdDiff(_, _, _)
ProdDiff(be, x, S) ==
    IF S = {} THEN 1
    ELSE LET l == CHOOSE y \in S : TRUE
         IN Mul(be, Xor(x, Point(l)), ProdDiff(be, x, S \ {l}))

----------------------------------------------------------------------------
(* In-memory codec.  Shards are sequences of bytes, an absent shard is the *)
(* empty sequence; position i of the array is shards[i + 1].               *)

\* position, in a shard, of the low byte of the element that the byte at
\* position p belongs to.  The 16-bit backend stores 32 elements in every
\* 64-byte chunk: the low bytes in its first half, the high bytes in its
\* second half.
LowPos(be, p) ==
    IF be = 8 THEN p
    ELSE LET off == (p - 1) % Align
         IN (p - 1 - off) + (off % (Align \div 2)) + 1

\* TRUE iff the byte at position p is the high byte of its element
IsHigh(be, p) == be # 8 /\ ((p - 1) % Align) >= Align \div 2

\* the element whose low byte is at position lo of the shard
EltAt(be, row, lo) ==
    IF be = 8 THEN row[lo]
    ELSE row[lo] + (2 ^ BitsPerByte) * row[lo + Align \div 2]

\* the shard whose elements are the sum over j of cs[j] * rows[j]
LinComb(be, cs, rows, S) ==
    LET RECURSIVE sum(_, _)
        sum(lo, j) == IF j = 0 THEN 0
                      ELSE Xor(Mul(be, cs[j], EltAt(be, rows[j], lo)), sum(lo, j - 1))
        elt(lo) == sum(lo, Len(cs))
    IN [p \in 1 .. S |->
           IF be = 8 THEN elt(p)
           ELSE IF IsHigh(be, p) THEN elt(LowPos(be, p)) \div (2 ^ BitsPerByte)
                ELSE elt(LowPos(be, p)) % (2 ^ BitsPerByte)]

\* coefficient of data shard i (0-based) in parity shard j (0-based): the
\* polynomial of degree < kk through the data is evaluated at the parity
\* position
EncCoef(be, kk, i, j) ==
    LET D == (0 .. kk - 1) \ {i}
    IN Mul(be, ProdDiff(be, Point(kk + j), D), Inv(be, ProdDiff(be, Point(i), D)))

\* the parity of the systematic code the specification describes: the
\* polynomial of degree below dataShards through the data elements, evaluated
\* at the parity positions.  The transforms that compute it (ifftDITEncoder,
\* fftDIT and their skew tables) are not part of the sources at hand and are
\* not modelled.
work(be, kk, mm, dataRows, S) ==
    [j \in 1 .. mm |->
        LinComb(be, [i \in 1 .. kk |-> EncCoef(be, kk, i - 1, j - 1)], dataRows, S)]

\* coefficient of the present shard j in the recovered shard e, E the set of
\* absent positions (all 0-based): the product of the codeword polynomial and
\* the error locator is interpolated from all nn positions, differentiated
\* and divided by the derivative of the locator
DecCoef(be, nn, E, e, j) ==
    LET All == 0 .. nn - 1
        locAtJ   == ProdDiff(be, Point(j), E)
        basisDer == Mul(be, ProdDiff(be, Point(e), All \ {j, e}),
                            Inv(be, ProdDiff(be, Point(j), All \ {j})))
        locDer   == ProdDiff(be, Point(e), E \ {e})
    IN Mul(be, Mul(be, locAtJ, basisDer), Inv(be, locDer))

\* the value of the absent shard e recovered from the present shards
recover(be, sh, S, e) ==
    LET nn == Len(sh)
        E  == {i \in 0 .. nn - 1 : Len(sh[i + 1]) = 0}
        P  == {i \in 0 .. nn - 1 : Len(sh[i + 1]) # 0}
        RECURSIVE order(_)
        order(T) == IF T = {} THEN <<>>
                    ELSE LET x == CHOOSE y \in T : \A z \in T : y <= z
                         IN <<x>> \o order(T \ {x})
        ps == order(P)
    IN LinComb(be, [t \in 1 .. Len(ps) |-> DecCoef(be, nn, E, e, ps[t])],
                   [t \in 1 .. Len(ps) |-> sh[ps[t] + 1]], S)

\* shardSize: the first non-zero size, or 0 if all shards are size 0
shardSize(sh) ==
    LET nz == {i \in 1 .. Len(sh) : Len(sh[i]) # 0}
    IN IF nz = {} THEN 0
       ELSE Len(sh[CHOOSE i \in nz : \A j \in nz : i <= j])

\* checkShards: all shards the same size, or 0 if nilok; not all of size 0
checkShards(sh, nilok) ==
    LET size == shardSize(sh)
    IN IF size = 0 THEN "ErrShardNoData"
       ELSE IF \E i \in 1 .. Len(sh) :
                  Len(sh[i]) # size /\ (Len(sh[i]) # 0 \/ ~nilok)
            THEN "ErrShardSize"
            ELSE "nil"

copyParity(sh, kk, mm, w) ==
    [i \in 1 .. Len(sh) |-> IF i <= kk THEN sh[i] ELSE w[i - kk]]

\* leopardFF16.encode (leopardFF8.encode is the same code over 8-bit elements)
leopard_encode(be, kk, mm, sh) ==
    LET e == checkShards(sh, FALSE)
    IN IF e # "nil" THEN [err |-> e, shards |-> sh]
       ELSE [err |-> "nil",
             shards |-> copyParity(sh, kk, mm,
                                   work(be, kk, mm, Take(sh, kk), shardSize(sh)))]

\* Verify: encode a copy of the data into scratch shards and compare them
\* with the supplied parity
leopard_verify(be, kk, mm, sh) ==
    LET e == checkShards(sh, FALSE)
    IN IF e # "nil" THEN [ok |-> FALSE, err |-> e]
       ELSE [ok |-> work(be, kk, mm, Take(sh, kk), shardSize(sh))
                        = [j \in 1 .. mm |-> sh[kk + j]],
             err |-> "nil"]

\* faulty variant of tooManyMissing: parityShards + 1 absent shards are accepted
tooManyMissingLoose(missing, mm) == missing > mm + 1

tooManyMissing(missing, mm) == missing > mm

\* leopardFF16.reconstruct; dataOnly is ReconstructData, which leaves absent
\* parity shards absent
leopard_reconstruct(be, kk, mm, sh, dataOnly) ==
    LET e == checkShards(sh, TRUE)
        missing == Cardinality({i \in 1 .. Len(sh) : Len(sh[i]) = 0})
    IN IF e # "nil" THEN [err |-> e, shards |-> sh]
       ELSE IF missing = 0 THEN [err |-> "nil", shards |-> sh]
       ELSE IF tooManyMissing(missing, mm)
            THEN [err |-> "ErrTooFewShards", shards |-> sh]
       ELSE [err |-> "nil",
             shards |-> [i \in 1 .. Len(sh) |->
                 IF Len(sh[i]) # 0 THEN sh[i]
                 ELSE IF dataOnly /\ i > kk THEN sh[i]
                 ELSE recover(be, sh, shardSize(sh), i - 1)]]

----------------------------------------------------------------------------
(* Stream adaptor: readers, writers and block buffers.                     *)
(* A reader is [nil, b]: nil for a nil io.Reader, b the bytes it still     *)
(* holds.  A writer is [nil, b]: b the bytes it has received.  A buffer    *)
(* row is a Go slice [arr, len, bad]: arr the backing array (its length is *)
(* the capacity), len the slice length, bad set once a reslice went beyond *)
(* the capacity (a run-time panic).                                        *)

Reader(bs) == [nil |-> FALSE, b |-> bs]
NilReader == [nil |-> TRUE, b |-> <<>>]
Writer == [nil |-> FALSE, b |-> <<>>, fails |-> FALSE]
NilWriter == [nil |-> TRUE, b |-> <<>>, fails |-> FALSE]

\* a writer whose Write returns an error and takes no bytes
FailingWriter == [nil |-> FALSE, b |-> <<>>, fails |-> TRUE]

\* the least position of the set S, Len(ws) + 1 if S is empty
FirstOf(S, ws) == IF S = {} THEN Len(ws) + 1 ELSE CHOOSE i \in S : \A j \in S : i <= j

\* make([]byte, n)
NewRow(n) == [arr |-> Zeros(n), len |-> n, bad |-> FALSE]

\* AllocAligned(shards, each): rows of length each, capacity each rounded up
AllocAligned(num, each) ==
    [i \in 1 .. num |-> [arr |-> Zeros(AlignUp(each)), len |-> each, bad |-> FALSE]]

Bytes(row) == Take(row.arr, row.len)

Cap(row) == Len(row.arr)

\* row[:n]
Reslice(row, n) ==
    IF n > Cap(row) THEN [row EXCEPT !.bad = TRUE] ELSE [row EXCEPT !.len = n]

\* a loop that leaves the bytes as they are
NoFill(row, a, b) == row

\* for j := a; j < b; j++ { row[j] = 0 }
ZeroFill(row, a, b) ==
    [row EXCEPT !.arr = [j \in 1 .. Len(@) |-> IF a < j /\ j <= b THEN 0 ELSE @[j]]]

\* newBuf := make([]byte, n); copy(newBuf, row)
CopyNew(row, n) == [arr |-> PadTo(Bytes(row), n), len |-> n, bad |-> row.bad]

\* the bytes bs stored from the start of the row, which becomes Len(bs) long
Store(row, bs) ==
    IF Cap(row) < Len(bs) THEN [arr |-> bs, len |-> Len(bs), bad |-> row.bad]
    ELSE [row EXCEPT !.arr = bs \o Drop(@, Len(bs)), !.len = Len(bs)]

\* io.ReadFull(reader, row) that returned the bytes bs: they are stored from
\* the start of the row, whose length stays as it is
ReadInto(row, bs) == [row EXCEPT !.arr = bs \o Drop(@, Len(bs))]

anyBad(rows) == \E i \in 1 .. Len(rows) : rows[i].bad

RowBytes(rows) == [i \in 1 .. Len(rows) |-> Bytes(rows[i])]

\* writer.Write(bs)
Write(w, bs) == [w EXCEPT !.b = @ \o bs]

\* a read loop whose reads fill the rows, while the readers move on by no
\* more than 64 bytes
readRowsSlow(rows, ins) ==
    LET n(i) == Min(BlockSize, Len(ins[i].b))
        got == {i \in 1 .. Len(ins) : ~ins[i].nil /\ n(i) > 0}
    IN [rows |-> [i \in 1 .. Len(rows) |->
                    IF i > Len(ins) THEN rows[i]
                    ELSE IF ins[i].nil THEN Reslice(rows[i], 0)
                    ELSE IF Cap(rows[i]) < BlockSize THEN Reslice(rows[i], BlockSize)
                    ELSE Store(rows[i], Take(ins[i].b, n(i)))],
        ins  |-> [i \in 1 .. Len(ins) |->
                    IF ins[i].nil THEN ins[i] ELSE Reader(Drop(ins[i].b, Min(n(i), Align)))],
        size |-> IF got = {} THEN -1
                 ELSE n(CHOOSE i \in got : \A j \in got : i <= j)]

\* the read loop at the head of every block: io.ReadFull of up to blockSize
\* bytes from every non-nil reader into its row; size is the count of the
\* first reader that returned bytes, -1 if there is none
readRows(rows, ins) ==
    LET n(i) == Min(BlockSize, Len(ins[i].b))
        got == {i \in 1 .. Len(ins) : ~ins[i].nil /\ n(i) > 0}
    IN [rows |-> [i \in 1 .. Len(rows) |->
                    IF i > Len(ins) THEN rows[i]
                    ELSE IF ins[i].nil THEN Reslice(rows[i], 0)
                    ELSE IF Cap(rows[i]) < BlockSize THEN Reslice(rows[i], BlockSize)
                    ELSE Store(rows[i], Take(ins[i].b, n(i)))],
        ins  |-> [i \in 1 .. Len(ins) |->
                    IF ins[i].nil THEN ins[i] ELSE Reader(Drop(ins[i].b, n(i)))],
        size |-> IF got = {} THEN -1
                 ELSE n(CHOOSE i \in got : \A j \in got : i <= j)]

\* rows shorter than size are zero-extended to it, longer ones are cut
fit(row, size) ==
    IF row.len = 0 THEN ZeroFill(Reslice(row, size), 0, size)
    ELSE IF row.len < size THEN ZeroFill(Reslice(row, size), row.len, size)
    ELSE IF row.len > size THEN Reslice(row, size)
    ELSE row

\* as fit, with a new buffer when the capacity is below size
fitCap(row, size) ==
    IF row.len # 0 /\ row.len < size /\ Cap(row) < size
    THEN ZeroFill(CopyNew(row, size), row.len, size)
    ELSE fit(row, size)

\* the element of a one-element set.  Only({e(x) : x \in {v}}) is e with x
\* bound to the value of v, which is then computed once.
Only(S) == CHOOSE x \in S : TRUE

\* the number of bytes each read of a block returns: up to blockSize bytes
\* of a reader, -1 for a nil reader
counts(ins) ==
    [i \in 1 .. Len(ins) |-> IF ins[i].nil THEN -1 ELSE Min(BlockSize, Len(ins[i].b))]

\* a call returns e with the writers ws, no further block is read
Exit(e, ws) == [err |-> e, outs |-> ws, blocks |-> <<>>]

\* verify returns (ok, e), no further block is read
Verdict(ok, e) == [ok |-> ok, err |-> e, blocks |-> <<>>]

\* the result r of the rest of a call, after an iteration of the block loop
\* whose reads returned lens, whose size was `size` and which handed the
\* shard array sh to the codec (<<>> if it made no codec call)
Block(size, lens, sh, r) ==
    [r EXCEPT !.blocks = <<[size |-> size, lens |-> lens, shards |-> sh]>> \o @]

\* the result r of a call whose read loop panics at a row of rows: the
\* slice all[i][:blockSize] is evaluated before the read it is the argument
\* of, so only the readers before that row were read.  The iteration is
\* recorded with those reads (-1 for a reader not read) and the size they
\* set, unset being the value the loop gives its size before the reads; an
\* iteration that panics before any read leaves no record.
Panicked(rows, ins, unset, r) ==
    LET stop == FirstOf({i \in 1 .. Len(rows) : rows[i].bad}, rows)
        lens == [i \in 1 .. Len(ins) |-> IF i >= stop THEN -1 ELSE counts(ins)[i]]
        got == {i \in 1 .. Len(ins) : lens[i] > 0}
    IN IF \A i \in 1 .. Len(ins) : lens[i] = -1 THEN r
       ELSE Block(IF got = {} THEN unset ELSE lens[FirstOf(got, ins)], lens, <<>>, r)

\* a row of length size becomes paddedSize long, zero-filled from size on
pad(row, size, paddedSize) ==
    IF row.len = size THEN ZeroFill(Reslice(row, paddedSize), size, paddedSize)
    ELSE row

\* rsStreamFF8.readInputs
readInputs8(dst, readers) ==
    Only({
        IF anyBad(rd.rows)
        THEN [err |-> "panic", size |-> 0, rows |-> rd.rows, ins |-> rd.ins]
        ELSE IF rd.size = -1
        THEN [err |-> "EOF", size |-> 0, rows |-> rd.rows, ins |-> rd.ins]
        ELSE [err |-> "nil", size |-> rd.size, ins |-> rd.ins,
              rows |-> [i \in 1 .. Len(rd.rows) |->
                          IF rd.size % Align = 0 THEN fit(rd.rows[i], rd.size)
                          ELSE pad(fit(rd.rows[i], rd.size), rd.size, AlignUp(rd.size))]]
        : rd \in {readRows(dst, readers)}})

\* a writeOutputs that writes the logical size, without the padding
writeOutputsUnpadded(ws, src, size) ==
    [err |-> "nil",
     outs |-> [i \in 1 .. Len(ws) |->
                 IF ws[i].nil THEN ws[i] ELSE Write(ws[i], Take(src[i].arr, size))]]

\* rsStreamFF8.writeOutputs
writeOutputs8(ws, src, size) ==
    LET alignedSize == AlignUp(size)
        stop == FirstOf({i \in 1 .. Len(ws) :
                            ~ws[i].nil /\ (Cap(src[i]) < alignedSize \/ ws[i].fails)}, ws)
    IN [err |-> IF stop > Len(ws) THEN "nil"
                ELSE IF Cap(src[stop]) < alignedSize THEN "panic"
                ELSE "StreamWriteError",
        outs |-> [i \in 1 .. Len(ws) |->
                    IF ws[i].nil \/ i >= stop THEN ws[i]
                    ELSE Write(ws[i], Take(src[i].arr, alignedSize))]]

\* encode: the parity rows take the parity the codec produced
withParity(rows, kk, sh) ==
    [i \in 1 .. Len(rows) |-> IF i <= kk THEN rows[i] ELSE Store(rows[i], sh[i])]

\* the block loop of rsStreamFF8.encode
RECURSIVE encodeLoop8(_, _, _, _, _)
encodeLoop8(kk, mm, rows, ins, ws) ==
    Only({
        IF rd.err = "panic" THEN Panicked(rd.rows, ins, -1, Exit("panic", ws))
        ELSE IF rd.err = "EOF" THEN Block(rd.size, counts(ins), <<>>, Exit("nil", ws))
        ELSE IF \A i \in 1 .. kk : rd.rows[i].len = 0
        THEN Block(rd.size, counts(ins), <<>>, Exit("ErrShardNoData", ws))
        ELSE Only({
            IF anyBad(all) THEN Block(rd.size, counts(ins), <<>>, Exit("panic", ws))
            ELSE Block(rd.size, counts(ins), RowBytes(all), Only({
                IF enc.err # "nil" THEN Exit(enc.err, ws)
                ELSE Only({
                    IF wo.err # "nil" THEN Exit(wo.err, wo.outs)
                    ELSE encodeLoop8(kk, mm, withParity(all, kk, enc.shards), rd.ins, wo.outs)
                    : wo \in {writeOutputs8(ws, Drop(withParity(all, kk, enc.shards), kk),
                                            rd.size)}})
                : enc \in {leopard_encode(8, kk, mm, RowBytes(all))}}))
            : all \in {[i \in 1 .. kk + mm |->
                          LET row == IF i <= kk THEN rd.rows[i] ELSE rows[i]
                          IN Reslice(IF row.len < AlignUp(rd.size)
                                     THEN CopyNew(row, AlignUp(rd.size)) ELSE row,
                                     AlignUp(rd.size))]}})
        : rd \in {readInputs8(Take(rows, kk), ins)}})

\* rsStreamFF8.encode
encode8(kk, mm, inputs, outputs) ==
    IF Len(inputs) # kk THEN Exit("ErrTooFewShards", outputs)
    ELSE IF Len(outputs) # mm THEN Exit("ErrTooFewShards", outputs)
    ELSE encodeLoop8(kk, mm,
                     [i \in 1 .. kk + mm |->
                         Reslice(AllocAligned(kk + mm, BlockSize)[i], BlockSize)],
                     inputs, outputs)

\* rows are extended to alignedSize and zero-filled from size on, in a new
\* buffer when the capacity is below alignedSize
alignCap(row, size, alignedSize) ==
    IF row.len > 0
    THEN ZeroFill(IF Cap(row) < alignedSize THEN CopyNew(row, alignedSize)
                  ELSE Reslice(row, alignedSize),
                  size, alignedSize)
    ELSE row

\* the normalisation of a row in verify, reconstruct and reconstructData of
\* rsStreamFF8: fitted to size, then aligned if size is no multiple of 64
normalise(row, size) ==
    IF size % Align = 0 THEN fitCap(row, size)
    ELSE alignCap(fitCap(row, size), size, AlignUp(size))

\* the rows after a codec call that left the shard array sh
afterCodec(rows, sh) ==
    [i \in 1 .. Len(rows) |->
        IF Bytes(rows[i]) = sh[i] THEN rows[i] ELSE Store(rows[i], sh[i])]

\* the block loop of rsStreamFF8.verify
RECURSIVE verifyLoop8(_, _, _, _, _)
verifyLoop8(kk, mm, rows, ins, read) ==
    Only({
        IF anyBad(rd.rows) THEN Panicked(rd.rows, ins, -1, Verdict(FALSE, "panic"))
        ELSE IF rd.size = -1
        THEN Block(rd.size, counts(ins), <<>>,
                   IF read = 0 THEN Verdict(FALSE, "ErrShardNoData") ELSE Verdict(TRUE, "nil"))
        ELSE Only({
            IF anyBad(all) THEN Block(rd.size, counts(ins), <<>>, Verdict(FALSE, "panic"))
            ELSE Block(rd.size, counts(ins), RowBytes(all), Only({
                IF ~v.ok \/ v.err # "nil" THEN Verdict(v.ok, v.err)
                ELSE verifyLoop8(kk, mm, all, rd.ins, read + rd.size)
                : v \in {leopard_verify(8, kk, mm, RowBytes(all))}}))
            : all \in {[i \in 1 .. Len(rd.rows) |-> normalise(rd.rows[i], rd.size)]}})
        : rd \in {readRows(rows, ins)}})

\* rsStreamFF8.verify
verify8(kk, mm, readers) ==
    IF Len(readers) # kk + mm THEN Verdict(FALSE, "ErrTooFewShards")
    ELSE verifyLoop8(kk, mm, AllocAligned(kk + mm, BlockSize), readers, 0)

\* the writes at the end of a block of reconstruct: writeSize bytes of row i
\* to every writer of the set W
writeRows(ws, rows, W, kk, size, alignedSize) ==
    LET writeSize(i) == IF i > kk THEN alignedSize ELSE size
        stop == FirstOf({i \in W : Cap(rows[i]) < writeSize(i) \/ ws[i].fails}, ws)
    IN [err |-> IF stop > Len(ws) THEN "nil"
                ELSE IF Cap(rows[stop]) < writeSize(stop) THEN "panic"
                ELSE "StreamWriteError",
        outs |-> [i \in 1 .. Len(ws) |->
                    IF i \in W /\ i < stop THEN Write(ws[i], Take(rows[i].arr, writeSize(i)))
                    ELSE ws[i]]]

\* reconstruct of rsStreamFF8, before the codec: a row that is neither empty
\* nor alignedSize long is made alignedSize long
realign(row, alignedSize) ==
    IF row.len # alignedSize /\ row.len # 0
    THEN IF Cap(row) < alignedSize THEN CopyNew(row, alignedSize)
         ELSE Reslice(row, alignedSize)
    ELSE row

\* the block loop of rsStreamFF8.reconstruct
RECURSIVE reconstructLoop8(_, _, _, _, _, _, _)
reconstructLoop8(kk, mm, rows, ins, ws, read, reconDataOnly) ==
    Only({
        IF anyBad(rd.rows) THEN Panicked(rd.rows, ins, -1, Exit("panic", ws))
        ELSE IF rd.size = -1
        THEN Block(rd.size, counts(ins), <<>>,
                   Exit(IF read = 0 THEN "ErrShardNoData" ELSE "nil", ws))
        ELSE Only({
            IF anyBad(all) THEN Block(rd.size, counts(ins), <<>>, Exit("panic", ws))
            ELSE Block(rd.size, counts(ins), RowBytes(all), Only({
                IF rec.err # "nil" THEN Exit(rec.err, ws)
                ELSE Only({
                    IF wo.err # "nil" THEN Exit(wo.err, wo.outs)
                    ELSE reconstructLoop8(kk, mm, afterCodec(all, rec.shards), rd.ins,
                                          wo.outs, read + rd.size, reconDataOnly)
                    : wo \in {writeRows(ws, afterCodec(all, rec.shards),
                                        {i \in 1 .. Len(ws) : ~ws[i].nil},
                                        kk, rd.size, AlignUp(rd.size))}})
                : rec \in {leopard_reconstruct(8, kk, mm, RowBytes(all), reconDataOnly)}}))
            : all \in {[i \in 1 .. Len(rd.rows) |->
                          realign(normalise(rd.rows[i], rd.size), AlignUp(rd.size))]}})
        : rd \in {readRows(rows, ins)}})

\* an input and an output are both given for some position
mismatch(inputs, outputs) ==
    \E i \in 1 .. Len(inputs) : ~inputs[i].nil /\ ~outputs[i].nil

\* rsStreamFF8.reconstruct
reconstruct8(kk, mm, inputs, outputs) ==
    IF Len(inputs) # kk + mm THEN Exit("ErrTooFewShards", outputs)
    ELSE IF Len(outputs) # kk + mm THEN Exit("ErrTooFewShards", outputs)
    ELSE IF mismatch(inputs, outputs) THEN Exit("ErrReconstructMismatch", outputs)
    ELSE reconstructLoop8(kk, mm, AllocAligned(kk + mm, BlockSize), inputs, outputs, 0,
                          \A i \in kk + 1 .. kk + mm : outputs[i].nil)

\* reconstructData, before the codec: a missing row is emptied, with a new
\* buffer when the capacity is below alignedSize
emptied(row, alignedSize) ==
    IF Cap(row) < alignedSize
    THEN [arr |-> Zeros(alignedSize), len |-> 0, bad |-> row.bad]
    ELSE Reslice(row, 0)

\* the block loop of reconstructData (rsStreamFF8 and rsStream16); missing is
\* the set of data positions with a nil input and an output
RECURSIVE reconstructDataLoop(_, _, _, _, _, _, _, _)
reconstructDataLoop(be, kk, mm, rows, ins, ws, read, missing) ==
    Only({
        IF anyBad(rd.rows) THEN Panicked(rd.rows, ins, -1, Exit("panic", ws))
        ELSE IF rd.size = -1
        THEN Block(rd.size, counts(ins), <<>>,
                   Exit(IF read = 0 THEN "ErrShardNoData" ELSE "nil", ws))
        ELSE Only({
            IF anyBad(all) THEN Block(rd.size, counts(ins), <<>>, Exit("panic", ws))
            ELSE Block(rd.size, counts(ins), RowBytes(all), Only({
                IF rec.err # "nil" THEN Exit(rec.err, ws)
                ELSE Only({
                    IF wo.err # "nil" THEN Exit(wo.err, wo.outs)
                    ELSE reconstructDataLoop(be, kk, mm, afterCodec(all, rec.shards), rd.ins,
                                             wo.outs, read + rd.size, missing)
                    : wo \in {writeRows(ws, afterCodec(all, rec.shards),
                                        {i \in 1 .. kk : ~ws[i].nil},
                                        kk, rd.size, rd.size)}})
                : rec \in {leopard_reconstruct(be, kk, mm, RowBytes(all), TRUE)}}))
            : all \in {[i \in 1 .. Len(rd.rows) |->
                          IF i \in missing THEN emptied(rd.rows[i], AlignUp(rd.size))
                          ELSE normalise(rd.rows[i], rd.size)]}})
        : rd \in {readRows(rows, ins)}})

\* rsStreamFF8.reconstructData, rsStream16.reconstructData
reconstructData(be, kk, mm, inputs, outputs) ==
    IF Len(inputs) # kk + mm THEN Exit("ErrTooFewShards", outputs)
    ELSE IF Len(outputs) # kk + mm THEN Exit("ErrTooFewShards", outputs)
    ELSE IF mismatch(inputs, outputs) THEN Exit("ErrReconstructMismatch", outputs)
    ELSE reconstructDataLoop(be, kk, mm, AllocAligned(kk + mm, BlockSize), inputs, outputs, 0,
                             {i \in 1 .. kk : inputs[i].nil /\ ~outputs[i].nil})

\* the 16-bit adaptor rounds odd sizes up to the next even size
Even(be, x) == IF be = 16 /\ x % 2 # 0 THEN x + 1 ELSE x

\* rsStream16.readInputs
readInputs16(readers, dst) ==
    Only({
        IF anyBad(rd.rows)
        THEN [err |-> "panic", size |-> 0, rows |-> rd.rows, ins |-> rd.ins]
        ELSE IF rd.size = -1
        THEN [err |-> "EOF", size |-> 0, rows |-> rd.rows, ins |-> rd.ins]
        ELSE LET size == Even(16, rd.size)
             IN [err |-> "nil", size |-> size, ins |-> rd.ins,
                 rows |-> [i \in 1 .. Len(rd.rows) |->
                             IF size % Align = 0 THEN fit(rd.rows[i], size)
                             ELSE pad(fit(rd.rows[i], size), size, AlignUp(size))]]
        : rd \in {readRows(dst, readers)}})

\* rsStream16.writeOutputs
writeOutputs16(ws, src, size) ==
    LET alignedSize == AlignUp(size)
        stop == FirstOf({i \in 1 .. Len(ws) :
                            ~ws[i].nil /\ (Cap(src[i]) < alignedSize \/ ws[i].fails)}, ws)
    IN [err |-> IF stop > Len(ws) THEN "nil"
                ELSE IF Cap(src[stop]) < alignedSize THEN "panic"
                ELSE "StreamWriteError",
        outs |-> [i \in 1 .. Len(ws) |->
                    IF ws[i].nil \/ i >= stop THEN ws[i]
                    ELSE Write(ws[i], Take(src[i].arr, alignedSize))]]

\* encode of rsStream16, before the codec: every row becomes alignedSize
\* long, a data row is zero-filled from size on
aligned16(row, isData, size, alignedSize) ==
    IF Cap(row) < alignedSize THEN CopyNew(row, alignedSize)
    ELSE IF isData /\ alignedSize > size
         THEN ZeroFill(Reslice(row, alignedSize), size, alignedSize)
    ELSE Reslice(row, alignedSize)

\* the block loop of rsStream16.encode
RECURSIVE encodeLoop16(_, _, _, _, _)
encodeLoop16(kk, mm, rows, ins, ws) ==
    Only({
        IF rd.err = "panic" THEN Panicked(rd.rows, ins, -1, Exit("panic", ws))
        ELSE IF rd.err = "EOF" THEN Block(rd.size, counts(ins), <<>>, Exit("nil", ws))
        ELSE IF \A i \in 1 .. kk : rd.rows[i].len = 0
        THEN Block(rd.size, counts(ins), <<>>, Exit("ErrShardNoData", ws))
        ELSE Only({
            Block(rd.size, counts(ins), RowBytes(all), Only({
                IF enc.err # "nil" THEN Exit(enc.err, ws)
                ELSE Only({
                    IF wo.err # "nil" THEN Exit(wo.err, wo.outs)
                    ELSE encodeLoop16(kk, mm, withParity(all, kk, enc.shards), rd.ins, wo.outs)
                    : wo \in {writeOutputs16(ws, Drop(withParity(all, kk, enc.shards), kk),
                                             rd.size)}})
                : enc \in {leopard_encode(16, kk, mm, RowBytes(all))}}))
            : all \in {[i \in 1 .. kk + mm |->
                          aligned16(IF i <= kk THEN rd.rows[i] ELSE rows[i], i <= kk,
                                    rd.size, AlignUp(rd.size))]}})
        : rd \in {readInputs16(ins, Take(rows, kk))}})

\* rsStream16.encode
encode16(kk, mm, inputs, outputs) ==
    IF Len(inputs) # kk THEN Exit("ErrTooFewShards", outputs)
    ELSE IF Len(outputs) # mm THEN Exit("ErrTooFewShards", outputs)
    ELSE encodeLoop16(kk, mm,
                      [i \in 1 .. kk + mm |->
                          Reslice(AllocAligned(kk + mm, BlockSize)[i], BlockSize)],
                      inputs, outputs)

\* verify of rsStream16, before the codec: a row of odd length size0 gets a
\* zero byte; if the even size is no multiple of 64 a row that is not empty
\* is copied into a new buffer of alignedSize bytes
normalise16(row, size0) ==
    LET size == Even(16, size0)
        fitted == fitCap(row, size0)
        even == IF size0 % 2 # 0 THEN pad(fitted, size0, size) ELSE fitted
    IN IF size % Align = 0 \/ even.len = 0 THEN even
       ELSE IF even.len < AlignUp(size) THEN CopyNew(even, AlignUp(size))
       ELSE Reslice(even, AlignUp(size))

\* the block loop of rsStream16.verify
RECURSIVE verifyLoop16(_, _, _, _, _)
verifyLoop16(kk, mm, rows, ins, read) ==
    Only({
        IF anyBad(rd.rows) THEN Panicked(rd.rows, ins, -1, Verdict(FALSE, "panic"))
        ELSE IF rd.size = -1
        THEN Block(rd.size, counts(ins), <<>>,
                   IF read = 0 THEN Verdict(FALSE, "ErrShardNoData") ELSE Verdict(TRUE, "nil"))
        ELSE Only({
            IF anyBad(all) THEN Block(rd.size, counts(ins), <<>>, Verdict(FALSE, "panic"))
            ELSE Block(Even(16, rd.size), counts(ins), RowBytes(all), Only({
                IF ~v.ok \/ v.err # "nil" THEN Verdict(v.ok, v.err)
                ELSE verifyLoop16(kk, mm, all, rd.ins, read + Even(16, rd.size))
                : v \in {leopard_verify(16, kk, mm, RowBytes(all))}}))
            : all \in {[i \in 1 .. Len(rd.rows) |-> normalise16(rd.rows[i], rd.size)]}})
        : rd \in {readRows(rows, ins)}})

\* rsStream16.verify
verify16(kk, mm, readers) ==
    IF Len(readers) # kk + mm THEN Verdict(FALSE, "ErrTooFewShards")
    ELSE verifyLoop16(kk, mm, AllocAligned(kk + mm, BlockSize), readers, 0)

\* reconstruct of rsStream16, before the codec: a row that is not missing is
\* made alignedSize long, zero-filled from its length on
aligned16r(row, alignedSize) ==
    IF row.len < alignedSize
    THEN ZeroFill(IF Cap(row) < alignedSize THEN CopyNew(row, alignedSize)
                  ELSE Reslice(row, alignedSize),
                  row.len, alignedSize)
    ELSE IF row.len > alignedSize THEN Reslice(row, alignedSize)
    ELSE row

\* the block loop of rsStream16.reconstruct; missing is the set of positions
\* with a nil input and an output
RECURSIVE reconstructLoop16(_, _, _, _, _, _, _, _)
reconstructLoop16(kk, mm, rows, ins, ws, read, reconDataOnly, missing) ==
    Only({
        IF anyBad(rd.rows) THEN Panicked(rd.rows, ins, 0, Exit("panic", ws))
        ELSE IF rd.size = -1
        THEN Block(0, counts(ins), <<>>,
                   Exit(IF read = 0 THEN "ErrShardNoData" ELSE "nil", ws))
        ELSE IF \E i \in 1 .. Len(rd.rows) : i \notin missing /\ rd.rows[i].len = 0
        THEN Block(rd.size, counts(ins), <<>>, Exit("ErrShardNoData", ws))
        ELSE Only({
            IF anyBad(all) THEN Block(rd.size, counts(ins), <<>>, Exit("panic", ws))
            ELSE Block(rd.size, counts(ins), RowBytes(all), Only({
                IF rec.err # "nil" THEN Exit(rec.err, ws)
                ELSE Only({
                    IF wo.err # "nil" THEN Exit(wo.err, wo.outs)
                    ELSE reconstructLoop16(kk, mm, afterCodec(all, rec.shards), rd.ins,
                                           wo.outs, read + rd.size, reconDataOnly, missing)
                    : wo \in {writeRows(ws, afterCodec(all, rec.shards),
                                        {i \in 1 .. Len(ws) : ~ws[i].nil /\ i \in missing},
                                        kk, rd.size, AlignUp(rd.size))}})
                : rec \in {leopard_reconstruct(16, kk, mm, RowBytes(all), reconDataOnly)}}))
            : all \in {[i \in 1 .. Len(rd.rows) |->
                          IF i \in missing THEN Reslice(rd.rows[i], 0)
                          ELSE aligned16r(rd.rows[i], AlignUp(rd.size))]}})
        : rd \in {readRows(rows, ins)}})

\* rsStream16.reconstruct
reconstruct16(kk, mm, inputs, outputs) ==
    LET missing == {i \in 1 .. kk + mm : inputs[i].nil /\ ~outputs[i].nil}
    IN IF Len(inputs) # kk + mm THEN Exit("ErrTooFewShards", outputs)
       ELSE IF Len(outputs) # kk + mm THEN Exit("ErrTooFewShards", outputs)
       ELSE IF mismatch(inputs, outputs)
            THEN Exit("ErrReconstructMismatch", outputs)
       ELSE IF missing = {} THEN Exit("nil", outputs)
       ELSE reconstructLoop16(kk, mm, [i \in 1 .. kk + mm |-> NewRow(BlockSize)],
                              inputs, outputs, 0,
                              \A i \in kk + 1 .. kk + mm : outputs[i].nil, missing)

\* split: the size of the first dataShards - 1 shards, the payload of the
\* last shard and the aligned size of the last shard
splitSizes(be, kk, size) ==
    LET p1 == AlignUp(AlignUp(Even(be, size)) \div kk)
        l1 == size - p1 * (kk - 1)
        p2 == AlignUp((size - 1) \div (kk - 1))
        l2 == size - p2 * (kk - 1)
        ls == IF l1 > 0 THEN l1 ELSE IF l2 <= 0 THEN 1 ELSE l2
    IN [perShard |-> IF l1 > 0 THEN p1 ELSE p2,
        lastShardSize |-> ls,
        alignedLastShardSize |-> AlignUp(Even(be, ls))]

\* the loop of split over the shard writers (shards are 1-based here).  The
\* reads are consecutive, so shard i starts at byte (i - 1) * perShard of src
\* and gets n(i) bytes, padded with zeros to bytesToRead(i).  The loop ends
\* early at the first shard whose read returns io.EOF (eofAt), or at a nil
\* writer, which it calls, or at a writer that fails, whose error it returns
\* as it is.  reads is the number of reads of the source the loop has made:
\* every shard is read before it is written.
splitLoop(kk, sz, src, ws, size) ==
    LET bytesToRead(i) == IF i = kk THEN sz.alignedLastShardSize ELSE sz.perShard
        actualDataSize(i) == IF i = kk THEN sz.lastShardSize ELSE sz.perShard
        start(i) == Min(Len(src), (i - 1) * sz.perShard)
        n(i) == Min(actualDataSize(i), Len(src) - start(i))
        eofs == {i \in 1 .. kk : actualDataSize(i) > 0 /\ n(i) = 0}
        eofAt == IF eofs = {} THEN kk + 1 ELSE CHOOSE i \in eofs : \A j \in eofs : i <= j
        totalRead == start(eofAt)
        nilAt == FirstOf({i \in 1 .. kk : ws[i].nil \/ ws[i].fails}, ws)
        failure == IF ws[nilAt].nil THEN "panic" ELSE "WriteError"
        alignedData(i) == PadTo(SubSeq(src, start(i) + 1, start(i) + n(i)), bytesToRead(i))
        short == eofAt <= kk /\ totalRead < size
        made == Min(kk, Min(nilAt, eofAt))
    IN IF nilAt < eofAt
       THEN [err |-> failure, reads |-> made,
             outs |-> [i \in 1 .. kk |->
                         IF i < nilAt THEN Write(ws[i], alignedData(i)) ELSE ws[i]]]
       ELSE IF short
       THEN [err |-> "ErrShortData", reads |-> made,
             outs |-> [i \in 1 .. kk |->
                         IF i < eofAt THEN Write(ws[i], alignedData(i)) ELSE ws[i]]]
       ELSE [err |-> IF nilAt <= kk THEN failure ELSE "nil", reads |-> made,
             outs |-> [i \in 1 .. kk |->
                         IF i < eofAt THEN Write(ws[i], alignedData(i))
                         ELSE IF i < nilAt THEN Write(ws[i], Zeros(bytesToRead(eofAt)))
                         ELSE ws[i]]]

\* rsStreamFF8.split, rsStream16.split; src is the content of the data reader
split(be, kk, src, dst, size) ==
    IF Len(dst) # kk THEN [err |-> "ErrTooFewShards", reads |-> 0, outs |-> dst]
    ELSE IF size <= 0 THEN [err |-> "ErrShortData", reads |-> 0, outs |-> dst]
    ELSE splitLoop(kk, splitSizes(be, kk, size), src, dst, size)

\* the concatenation of the sequences of ss
Concat(ss) ==
    LET RECURSIVE cat(_, _)
        cat(lo, hi) == IF lo > hi THEN <<>>
                       ELSE IF lo = hi THEN ss[lo]
                       ELSE cat(lo, (lo + hi) \div 2) \o cat((lo + hi) \div 2 + 1, hi)
    IN cat(1, Len(ss))

\* the first n bytes of bs, or all of bs if it is shorter
UpTo(bs, n) == Take(bs, Min(n, Len(bs)))

\* the bytes obtained by reading, from every non-nil reader in order, as
\* much as is still wanted of limit bytes
readEach(readers, limit) ==
    UpTo(Concat([i \in 1 .. Len(readers) |->
                    IF readers[i].nil THEN <<>> ELSE readers[i].b]), limit)

\* perShard of joinWithMultiReader and joinWithBufferedReads
joinPerShard(be, kk, outSize) ==
    LET perShard == (outSize + kk - 1) \div kk
    IN IF (be = 16 /\ perShard % 2 # 0) \/ perShard % Align # 0
       THEN Even(be, AlignUp(perShard)) ELSE perShard

\* the readers chained by joinWithMultiReader: the bytes each io.LimitReader
\* yields; the reader at the last index is limited to what outSize leaves
\* after perShard bytes for every reader before it, and left out if that is
\* nothing
limitReaders(rs, perShard, outSize) ==
    [i \in 1 .. Len(rs) |->
        LET before == Cardinality({j \in 1 .. i - 1 : ~rs[j].nil})
            expectedSize == IF i = Len(rs) THEN outSize - before * perShard ELSE perShard
        IN IF rs[i].nil \/ expectedSize <= 0 THEN <<>>
           ELSE UpTo(rs[i].b, expectedSize)]

\* joinWithMultiReader
joinWithMultiReader(be, kk, dst, rs, outSize) ==
    Only({
        IF dst.fails /\ multiReader # <<>> THEN [err |-> "WriteError", out |-> dst]
        ELSE [err |-> IF Len(multiReader) < outSize THEN "ErrShortData" ELSE "nil",
              out |-> Write(dst, UpTo(multiReader, outSize))]
        : multiReader \in {Concat(limitReaders(rs, joinPerShard(be, kk, outSize), outSize))}})

\* the first loop of joinWithBufferedReads: every non-nil shard but the one
\* at the last index yields up to perShard bytes, until outSize bytes are
\* written
bufferedLoop(rs, perShard, outSize) ==
    UpTo(Concat([i \in 1 .. Len(rs) |->
                    IF rs[i].nil \/ i = Len(rs) THEN <<>> ELSE UpTo(rs[i].b, perShard)]),
         outSize)

\* joinWithBufferedReads: after the first loop the last non-nil shard is read
\* on until outSize bytes are written or the shard ends
joinWithBufferedReads(be, kk, dst, rs, outSize) ==
    Only({
        LET perShard == joinPerShard(be, kk, outSize)
            valid == {i \in 1 .. Len(rs) : ~rs[i].nil}
            lastIndex == CHOOSE i \in valid : \A j \in valid : j <= i
            lastShard == IF lastIndex = Len(rs) THEN rs[lastIndex].b
                         ELSE Drop(rs[lastIndex].b, Min(perShard, Len(rs[lastIndex].b)))
            more == IF valid # {} /\ Len(first) < outSize
                    THEN UpTo(lastShard, outSize - Len(first))
                    ELSE <<>>
        IN IF dst.fails /\ first \o more # <<>> THEN [err |-> "WriteError", out |-> dst]
           ELSE [err |-> IF Len(first) + Len(more) < outSize THEN "ErrShortData" ELSE "nil",
                 out |-> Write(dst, first \o more)]
        : first \in {bufferedLoop(rs, joinPerShard(be, kk, outSize), outSize)}})

\* rsStreamFF8.join, rsStream16.join; allSeekable tells whether the readers
\* implement io.Seeker.  The error of a failing destination is returned as
\* it is.
join(be, kk, mm, dst, readers, outSize, allSeekable) ==
    LET tiny == readEach(readers, outSize)
        dataShards == IF Len(readers) = kk + mm THEN Take(readers, kk) ELSE readers
        validDataShards == Cardinality({i \in 1 .. Len(dataShards) : ~dataShards[i].nil})
        buffer == readEach(dataShards, outSize)
    IN IF dst.nil THEN [err |-> "ErrNilWriter", out |-> dst]
       ELSE IF Len(readers) = 0 THEN [err |-> "ErrTooFewShards", out |-> dst]
       ELSE IF outSize <= 0 THEN [err |-> "ErrSize", out |-> dst]
       ELSE IF outSize <= kk
            THEN IF Len(tiny) < outSize THEN [err |-> "ErrShortData", out |-> dst]
                 ELSE IF dst.fails THEN [err |-> "WriteError", out |-> dst]
                 ELSE [err |-> "nil", out |-> Write(dst, tiny)]
       ELSE IF validDataShards < kk THEN [err |-> "ErrTooFewShards", out |-> dst]
       ELSE IF outSize < SmallJoin
            THEN IF Len(buffer) < outSize THEN [err |-> "ErrShortData", out |-> dst]
                 ELSE IF dst.fails THEN [err |-> "WriteError", out |-> dst]
                 ELSE [err |-> "nil", out |-> Write(dst, buffer)]
       ELSE IF outSize <= SmallFileThreshold /\ allSeekable
            THEN joinWithMultiReader(be, kk, dst, dataShards, outSize)
       ELSE joinWithBufferedReads(be, kk, dst, dataShards, outSize)

\* the readers of a chain that are read when the chain is read in order
\* until limit bytes are delivered: a reader is read while the bytes of the
\* readers before it fall short of limit; chain[i] holds the bytes reader i
\* can deliver, inChain(i) tells whether it is part of the chain
readsIn(chain, inChain, limit) ==
    {i \in 1 .. Len(chain) :
        inChain[i] /\ Len(Concat(SubSeq(chain, 1, i - 1))) < limit}

\* the positions of the streams join reads from, by the path it takes.  The
\* two paths that write as they read return at the first write that fails,
\* so with a failing destination they read on only until a reader has
\* delivered a byte.
joinReads(be, kk, mm, dst, readers, outSize, allSeekable) ==
    LET dataShards == IF Len(readers) = kk + mm THEN Take(readers, kk) ELSE readers
        valid == {i \in 1 .. Len(dataShards) : ~dataShards[i].nil}
        perShard == joinPerShard(be, kk, outSize)
        all(rs) == [i \in 1 .. Len(rs) |-> IF rs[i].nil THEN <<>> ELSE rs[i].b]
        present(rs) == [i \in 1 .. Len(rs) |-> ~rs[i].nil]
        limited == limitReaders(dataShards, perShard, outSize)
        chained == [i \in 1 .. Len(dataShards) |->
                      /\ i \in valid
                      /\ (i = Len(dataShards)
                            => outSize - Cardinality({j \in valid : j < i}) * perShard > 0)]
        lastIndex == CHOOSE i \in valid : \A j \in valid : j <= i
        first == [i \in 1 .. Len(dataShards) |->
                    IF i \in valid /\ i # Len(dataShards)
                    THEN UpTo(dataShards[i].b, perShard) ELSE <<>>]
        wanted == IF dst.fails THEN 1 ELSE outSize
    IN IF dst.nil \/ Len(readers) = 0 \/ outSize <= 0 THEN {}
       ELSE IF outSize <= kk THEN readsIn(all(readers), present(readers), outSize)
       ELSE IF Cardinality(valid) < kk THEN {}
       ELSE IF outSize < SmallJoin
            THEN readsIn(all(dataShards), present(dataShards), outSize)
       ELSE IF outSize <= SmallFileThreshold /\ allSeekable
            THEN readsIn(limited, chained, wanted)
       ELSE readsIn(first, [i \in 1 .. Len(dataShards) |-> i \in valid /\ i # Len(dataShards)],
                    wanted)
            \cup (IF Len(Concat(first)) < wanted THEN {lastIndex} ELSE {})

----------------------------------------------------------------------------
(* The facade: rsFF8 and rsFF16.  Every stream call builds a new stream    *)
(* encoder, so no buffer survives a call.                                  *)

StreamEncode(be, kk, mm, inputs, outputs) ==
    IF Len(inputs) # kk THEN Exit("ErrTooFewShards", outputs)
    ELSE IF Len(outputs) # mm THEN Exit("ErrTooFewShards", outputs)
    ELSE IF be = 8 THEN encode8(kk, mm, inputs, outputs)
    ELSE encode16(kk, mm, inputs, outputs)

StreamVerify(be, kk, mm, readers) ==
    IF Len(readers) # kk + mm THEN Verdict(FALSE, "ErrTooFewShards")
    ELSE IF be = 8 THEN verify8(kk, mm, readers)
    ELSE verify16(kk, mm, readers)

StreamReconstruct(be, kk, mm, inputs, outputs) ==
    IF Len(inputs) # kk + mm \/ Len(outputs) # kk + mm
    THEN Exit("ErrTooFewShards", outputs)
    ELSE IF mismatch(inputs, outputs) THEN Exit("ErrReconstructMismatch", outputs)
    ELSE IF \A i \in kk + 1 .. kk + mm : outputs[i].nil
         THEN reconstructData(be, kk, mm, inputs, outputs)
    ELSE IF be = 8 THEN reconstruct8(kk, mm, inputs, outputs)
    ELSE reconstruct16(kk, mm, inputs, outputs)

\* a StreamReconstructData that hands the whole output list on
StreamReconstructDataAll(be, kk, mm, inputs, outputs) ==
    IF Len(outputs) < kk THEN Exit("panic", outputs)
    ELSE StreamReconstruct(be, kk, mm, inputs, outputs)

\* the first dataShards outputs are copied into a list of totalShards
\* writers before any length is checked
StreamReconstructData(be, kk, mm, inputs, outputs) ==
    IF Len(outputs) < kk THEN Exit("panic", outputs)
    ELSE Only({
        [err |-> r.err, blocks |-> r.blocks,
         outs |-> [i \in 1 .. Len(outputs) |-> IF i <= kk THEN r.outs[i] ELSE outputs[i]]]
        : r \in {StreamReconstruct(be, kk, mm, inputs,
                    [i \in 1 .. kk + mm |-> IF i <= kk THEN outputs[i] ELSE NilWriter])}})

\* a StreamSplit that takes a writer list of any length
StreamSplitAnyCount(be, kk, src, dst, size) ==
    IF size <= 0 THEN [err |-> "ErrShortData", reads |-> 0, outs |-> dst]
    ELSE splitLoop(kk, splitSizes(be, kk, size), src, dst, size)

StreamSplit(be, kk, src, dst, size) ==
    IF Len(dst) # kk THEN [err |-> "ErrTooFewShards", reads |-> 0, outs |-> dst]
    ELSE split(be, kk, src, dst, size)

StreamJoin(be, kk, mm, dst, readers, outSize, allSeekable) ==
    IF dst.nil THEN [err |-> "ErrNilWriter", out |-> dst]
    ELSE join(be, kk, mm, dst, readers, outSize, allSeekable)

----------------------------------------------------------------------------
(* The in-memory scenario: Encode, then either erase shards and            *)
(* Reconstruct, or corrupt one bit, Verify, and restore it.                *)

\* (dataShards, parityShards) of the codec instances of the in-memory scenario
MemConfigs == {<<1, 1>>, <<2, 1>>, <<1, 2>>, <<2, 2>>}

\* shard sizes handed to the in-memory codec
MemSizes == {Align}

\* what the caller left in the parity shards before Encode
ParityFill == {"zero", "junk", "none"}

\* positions of the absent shards of an array (1-based)
AbsentOf(sh) == {i \in 1 .. Len(sh) : Len(sh[i]) = 0}

\* shard i of sh with bit b of the byte at position p inverted
FlipBit(sh, i, p, b) ==
    [sh EXCEPT ![i][p] = IF Bit(@, b) = 1 THEN @ - 2 ^ b ELSE @ + 2 ^ b]

idleArgs ==
    /\ argSize = 0 /\ handed = 0 /\ failing = 0 /\ dstNil = FALSE /\ reads = {}

\* no kernel call is under test
NoKernel == [op |-> "none", log_m |-> 0, x |-> <<>>, y |-> <<>>, rx |-> <<>>, ry |-> <<>>]

\* no call of the stream adaptor is in progress
NoCall ==
    [op |-> "none", conc |-> FALSE, pc |-> "idle", ins |-> <<>>, ws |-> <<>>, rows |-> <<>>,
     failR |-> {}, rtasks |-> <<>>, wtasks |-> <<>>, pend |-> <<>>, ch |-> <<>>,
     firstSize |-> -1, size |-> 0, iter |-> 0, coded |-> 0,
     gets |-> 0, puts |-> 0, deferred |-> FALSE, ret |-> "none", ok |-> FALSE]

idleAux ==
    /\ kern = NoKernel
    /\ blocks = <<>>
    /\ call = NoCall

idleStreams ==
    /\ raw = <<>> /\ data = <<>> /\ parity = <<>>
    /\ absent = {} /\ writers = <<>> /\ outs = <<>> /\ joined = <<>>
    /\ seekable = FALSE
    /\ idleArgs

MemInit ==
    /\ \E c \in MemConfigs : k = c[1] /\ m = c[2]
    /\ backend \in {8, 16}
    /\ phase = "m_init"
    /\ err = "nil"
    /\ vres = NoResult
    /\ \E s \in 0 .. NumSeeds - 1, S \in MemSizes, f \in ParityFill :
          shards = [i \in 1 .. k + m |->
                       IF i <= k THEN Pat(s, i, S)
                       ELSE IF f = "zero" THEN Zeros(S)
                       ELSE IF f = "junk" THEN Pat(s + 1, i, S)
                       ELSE <<>>]
    /\ orig = <<>>
    /\ pre = <<>>
    /\ flip = <<0, 0, 0>>
    /\ idleStreams
    /\ idleAux

MemEncode ==
    /\ phase = "m_init"
    /\ LET r == leopard_encode(backend, k, m, shards)
       IN /\ shards' = r.shards
          /\ err' = r.err
          /\ orig' = r.shards
          /\ phase' = IF r.err = "nil" THEN "m_encoded" ELSE "m_failed"
    /\ vres' = NoResult
    /\ UNCHANGED <<cfgVars, auxVars, pre, flip, strVars>>

MemVerify ==
    /\ phase \in {"m_encoded", "m_flipped", "m_restored", "m_recon"}
    /\ vres = NoResult
    /\ vres' = leopard_verify(backend, k, m, shards)
    /\ UNCHANGED <<cfgVars, auxVars, phase, err, memVars, strVars>>

MemErase ==
    /\ phase = "m_encoded"
    /\ \E E \in SUBSET (1 .. k + m) :
          /\ shards' = [i \in 1 .. k + m |-> IF i \in E THEN <<>> ELSE shards[i]]
          /\ pre' = shards'
    /\ phase' = "m_erased"
    /\ vres' = NoResult
    /\ UNCHANGED <<cfgVars, auxVars, err, orig, flip, strVars>>

MemReconstruct ==
    /\ phase = "m_erased"
    /\ LET r == leopard_reconstruct(backend, k, m, shards, FALSE)
       IN /\ shards' = r.shards
          /\ err' = r.err
    /\ phase' = "m_recon"
    /\ UNCHANGED <<cfgVars, auxVars, vres, orig, pre, flip, strVars>>

MemReconstructData ==
    /\ phase = "m_erased"
    /\ LET r == leopard_reconstruct(backend, k, m, shards, TRUE)
       IN /\ shards' = r.shards
          /\ err' = r.err
    /\ phase' = "m_recondata"
    /\ UNCHANGED <<cfgVars, auxVars, vres, orig, pre, flip, strVars>>

MemFlip ==
    /\ phase = "m_encoded"
    /\ \E i \in 1 .. k + m, p \in 1 .. Len(shards[1]), b \in 0 .. BitsPerByte - 1 :
          /\ shards' = FlipBit(shards, i, p, b)
          /\ flip' = <<i, p, b>>
    /\ phase' = "m_flipped"
    /\ vres' = NoResult
    /\ UNCHANGED <<cfgVars, auxVars, err, orig, pre, strVars>>

MemRestore ==
    /\ phase = "m_flipped"
    /\ shards' = FlipBit(shards, flip[1], flip[2], flip[3])
    /\ flip' = <<0, 0, 0>>
    /\ phase' = "m_restored"
    /\ vres' = NoResult
    /\ UNCHANGED <<cfgVars, auxVars, err, orig, pre, strVars>>

MemNext ==
    \/ MemEncode
    \/ MemVerify
    \/ MemErase
    \/ MemReconstruct
    \/ MemReconstructData
    \/ MemFlip
    \/ MemRestore

SpecMem == MemInit /\ [][MemNext]_vars

----------------------------------------------------------------------------
(* The stream scenario: StreamSplit or caller-made data streams, then      *)
(* StreamEncode, then StreamVerify, or nil inputs and StreamReconstruct /  *)
(* StreamReconstructData; StreamJoin after StreamSplit.                    *)

\* (dataShards, parityShards) of the codec instances of the stream scenario
StreamConfigs == {<<1, 1>>, <<2, 1>>, <<1, 2>>, <<2, 2>>}

\* sizes handed to StreamSplit
SplitSizes == {1, 100, Align + 1, BlockSize + 1, BlockSize + Align + 8}

\* lengths of the caller-made data streams
DataShapes(kk) ==
    IF kk = 1 THEN {<<10>>, <<Align>>, <<BlockSize + 5>>}
    ELSE {<<10, 10>>, <<Align, Align>>, <<10, BlockSize + 5>>, <<0, 11>>, <<0, 1>>}

\* stream contents under pattern seed s: seed 0 is all zero bytes.  The
\* phases "s_empty..." are those of a caller whose n streams are all empty.
StreamPat(s, i, n) == IF s = 0 THEN Zeros(n) ELSE Pat(s, i, n)

idleMem ==
    /\ shards = <<>> /\ orig = <<>> /\ pre = <<>> /\ flip = <<0, 0, 0>>

Readers(contents) == [i \in 1 .. Len(contents) |-> Reader(contents[i])]

Writers(flags) == [i \in 1 .. Len(flags) |-> IF flags[i] THEN Writer ELSE NilWriter]

\* the writer list of flags in which the writer at position f fails
WritersWith(flags, f) ==
    [i \in 1 .. Len(flags) |-> IF i = f /\ flags[i] THEN FailingWriter ELSE Writers(flags)[i]]

Received(ws) == [i \in 1 .. Len(ws) |-> ws[i].b]

StreamInit ==
    /\ \E c \in StreamConfigs : k = c[1] /\ m = c[2]
    /\ backend \in {8, 16}
    /\ err = "nil"
    /\ vres = NoResult
    /\ idleMem
    /\ absent = {} /\ writers = <<>> /\ outs = <<>>
    /\ joined = <<>> /\ seekable = FALSE
    /\ idleArgs
    /\ idleAux
    /\ \E s \in 0 .. NumSeeds - 1 :
          \/ /\ phase = "s_raw"
             /\ \E size \in SplitSizes : raw = StreamPat(s, 0, size)
             /\ data = <<>> /\ parity = <<>>
          \/ /\ phase = "s_data"
             /\ raw = <<>> /\ parity = <<>>
             /\ \E shape \in DataShapes(k) :
                   data = [i \in 1 .. k |-> StreamPat(s, i, shape[i])]
          \/ /\ phase = "s_empty"
             /\ s = 0
             /\ raw = <<>>
             /\ data = [i \in 1 .. k |-> <<>>]
             /\ parity = [j \in 1 .. m |-> <<>>]

\* the writer lists a caller hands to StreamSplit
SplitLists(kk) ==
    {[i \in 1 .. kk |-> TRUE], [i \in 1 .. kk |-> i # kk], [i \in 1 .. kk + 1 |-> TRUE]}

\* the size arguments a caller hands to StreamSplit for a source of n bytes
SplitArgs(n) == {0, n, n + 1, 2 * n + Align}

\* the positions of the writer that fails in a call with the writers flags:
\* none, the first or the last
Failing(flags) == {0} \cup {i \in {1, Len(flags)} : i >= 1 /\ flags[i]}

\* a call with the size of the source and sound writers leads on to the
\* shard streams; a call with another size ends the scenario in "s_short",
\* one with a failing writer in "s_io"
DoStreamSplit ==
    /\ phase = "s_raw"
    /\ \E flags \in SplitLists(k), sz \in SplitArgs(Len(raw)) :
       \E f \in IF sz = Len(raw) /\ Len(flags) = k THEN Failing(flags) ELSE {0} :
          LET r == StreamSplit(backend, k, raw, WritersWith(flags, f), sz)
          IN /\ writers' = flags
             /\ argSize' = sz
             /\ failing' = f
             /\ outs' = Received(r.outs)
             /\ err' = r.err
             /\ data' = IF r.err = "nil" /\ sz = Len(raw) THEN Received(r.outs) ELSE <<>>
             /\ reads' = 1 .. r.reads
             /\ phase' = IF f # 0 THEN "s_io"
                          ELSE IF sz # Len(raw) THEN "s_short"
                          ELSE IF r.err = "nil" THEN "s_data" ELSE "s_failed"
    /\ UNCHANGED <<cfgVars, auxVars, vres, memVars, raw, parity, absent, joined, seekable, handed, dstNil>>

\* the outSize arguments a caller hands to StreamJoin
JoinSizes ==
    {0, 1, 2, Len(raw), Len(Concat(data)), Len(Concat(data)) + 1, SmallFileThreshold + 1}

\* the calls of StreamJoin: over the k data streams, all n streams or an
\* empty list of streams, with a destination that is sound, fails or is nil
JoinArgs ==
    {[outSize |-> sz, all |-> a, none |-> FALSE, nil |-> FALSE, fails |-> FALSE] :
        sz \in JoinSizes, a \in IF parity = <<>> THEN {FALSE} ELSE BOOLEAN}
    \cup {[outSize |-> sz, all |-> FALSE, none |-> FALSE, nil |-> TRUE, fails |-> FALSE] :
            sz \in {0, Len(Concat(data))}}
    \cup {[outSize |-> sz, all |-> FALSE, none |-> FALSE, nil |-> FALSE, fails |-> TRUE] :
            sz \in {1, Len(Concat(data))}}
    \cup {[outSize |-> sz, all |-> FALSE, none |-> TRUE, nil |-> n, fails |-> FALSE] :
            sz \in {0, Len(Concat(data))}, n \in BOOLEAN}

\* the join of the shard streams StreamSplit made, with the size of the
\* source, ends in "s_joined"; a call with a failing destination ends in
\* "s_io", any other call in "s_joined_any"
DoStreamJoin ==
    /\ phase \in {"s_data", "s_encoded", "s_empty"}
    /\ \E sk \in BOOLEAN, a \in JoinArgs :
          LET dst == IF a.nil THEN NilWriter ELSE IF a.fails THEN FailingWriter ELSE Writer
              rs == Readers(IF a.none THEN <<>> ELSE IF a.all THEN data \o parity ELSE data)
              r == StreamJoin(backend, k, m, dst, rs, a.outSize, sk)
          IN /\ seekable' = sk
             /\ argSize' = a.outSize
             /\ handed' = Len(rs)
             /\ failing' = IF a.fails THEN 1 ELSE 0
             /\ dstNil' = a.nil
             /\ reads' = joinReads(backend, k, m, dst, rs, a.outSize, sk)
             /\ joined' = r.out.b
             /\ err' = r.err
             /\ phase' = IF a.fails THEN "s_io"
                          ELSE IF /\ phase = "s_data" /\ raw # <<>> /\ a.outSize = Len(raw)
                                  /\ ~a.all /\ ~a.nil
                          THEN "s_joined" ELSE "s_joined_any"
    /\ UNCHANGED <<cfgVars, auxVars, vres, memVars, raw, data, parity, absent, writers, outs>>

\* the stream lists a caller hands to StreamEncode: k inputs and m outputs,
\* or one input too few, or one output too many
EncodeLists == {<<k, m>>, <<k - 1, m>>, <<k, m + 1>>}

\* a call with k inputs and m sound outputs leads on to the parity streams;
\* a call with other list lengths ends the scenario in "s_args", one with a
\* failing writer in "s_io"
DoStreamEncode ==
    /\ phase \in {"s_data", "s_empty"}
    /\ \E c \in IF phase = "s_data" THEN EncodeLists ELSE {<<k, m>>} :
       \E f \in IF c = <<k, m>> /\ phase = "s_data" THEN {0, 1, m} ELSE {0} :
          LET flags == [j \in 1 .. c[2] |-> TRUE]
              r == StreamEncode(backend, k, m, Readers(Take(data, c[1])), WritersWith(flags, f))
          IN /\ handed' = c[1]
             /\ writers' = flags
             /\ failing' = f
             /\ outs' = Received(r.outs)
             /\ parity' = IF c = <<k, m>> /\ f = 0 THEN Received(r.outs) ELSE <<>>
             /\ err' = r.err
             /\ blocks' = r.blocks
             /\ phase' = IF phase = "s_empty" THEN "s_empty_encoded"
                          ELSE IF f # 0 THEN "s_io"
                          ELSE IF c # <<k, m>> THEN "s_args"
                          ELSE IF r.err = "nil" THEN "s_encoded" ELSE "s_failed"
    /\ UNCHANGED <<cfgVars, kern, call, vres, memVars, raw, data, absent, joined, seekable, argSize, dstNil, reads>>

\* StreamVerify over the n streams, or over a list without the last one,
\* which ends the scenario in "s_args"
DoStreamVerify ==
    /\ phase \in {"s_encoded", "s_empty"}
    /\ vres = NoResult
    /\ \E n \in IF phase = "s_encoded" THEN {k + m, k + m - 1} ELSE {k + m} :
          LET r == StreamVerify(backend, k, m, Readers(Take(data \o parity, n)))
          IN /\ vres' = [ok |-> r.ok, err |-> r.err]
             /\ blocks' = r.blocks
             /\ handed' = n
             /\ phase' = IF n = k + m THEN phase ELSE "s_args"
    /\ UNCHANGED <<cfgVars, kern, call, err, memVars, raw, data, parity, absent, writers, outs,
                   joined, seekable, argSize, failing, dstNil, reads>>

\* the caller drops the streams of the set E and makes an output list: a
\* writer at every position of W, a list that is too short, or a writer at
\* a position whose input stream is kept (the first data or the last parity);
\* or the caller hands an input list without its last stream
StreamErase ==
    /\ phase \in {"s_encoded", "s_empty"}
    /\ \E E \in SUBSET (1 .. k + m) :
          /\ absent' = E
          /\ \/ /\ \E W \in SUBSET E : writers' = [i \in 1 .. k + m |-> i \in W]
                /\ handed' = k + m
             \/ E = {1} /\ writers' = <<>> /\ handed' = k + m
             \/ /\ E = {}
                /\ \E a \in {1, k + m} : writers' = [i \in 1 .. k + m |-> i = a]
                /\ handed' = k + m
             \/ /\ E = {1} /\ phase = "s_encoded"
                /\ writers' = [i \in 1 .. k + m |-> i = 1]
                /\ handed' = k + m - 1
    /\ phase' = IF phase = "s_empty" THEN "s_empty_erased" ELSE "s_erased"
    /\ vres' = NoResult
    /\ outs' = <<>>
    /\ blocks' = <<>>
    /\ UNCHANGED <<cfgVars, kern, call, err, memVars, raw, data, parity, joined, seekable,
                   argSize, failing, dstNil, reads>>

\* the input list after the erasure: the first `handed` streams
Inputs ==
    [i \in 1 .. handed |->
        IF i \in absent THEN NilReader ELSE Reader((data \o parity)[i])]

\* a call whose last writer fails ends the scenario in "s_io", one with an
\* input list that is too short in "s_args"
DoStreamReconstruct ==
    /\ phase \in {"s_erased", "s_empty_erased"}
    /\ \E f \in IF phase = "s_erased" /\ handed = k + m
                THEN {0} \cup {i \in {Len(writers)} : i >= 1 /\ writers[i]}
                ELSE {0} :
          LET r == StreamReconstruct(backend, k, m, Inputs, WritersWith(writers, f))
          IN /\ outs' = Received(r.outs)
             /\ err' = r.err
             /\ blocks' = r.blocks
             /\ failing' = f
             /\ phase' = IF f # 0 THEN "s_io"
                          ELSE IF handed # k + m THEN "s_args"
                          ELSE IF phase = "s_erased" THEN "s_recon" ELSE "s_empty_recon"
    /\ UNCHANGED <<cfgVars, kern, call, vres, memVars, raw, data, parity, absent, writers, joined,
                   seekable, argSize, handed, dstNil, reads>>

\* a call whose first writer fails ends the scenario in "s_io", one with an
\* input list that is too short in "s_args"
DoStreamReconstructData ==
    /\ phase \in {"s_erased", "s_empty_erased"}
    /\ \E f \in IF phase = "s_erased" /\ handed = k + m
                THEN {0} \cup {i \in {1} : Len(writers) >= 1 /\ writers[i]}
                ELSE {0} :
          LET r == StreamReconstructData(backend, k, m, Inputs, WritersWith(writers, f))
          IN /\ outs' = Received(r.outs)
             /\ err' = r.err
             /\ blocks' = r.blocks
             /\ failing' = f
             /\ phase' = IF f # 0 THEN "s_io"
                          ELSE IF handed # k + m THEN "s_args"
                          ELSE IF phase = "s_erased" THEN "s_recondata" ELSE "s_empty_recondata"
    /\ UNCHANGED <<cfgVars, kern, call, vres, memVars, raw, data, parity, absent, writers, joined,
                   seekable, argSize, handed, dstNil, reads>>

StreamNext ==
    \/ DoStreamSplit
    \/ DoStreamJoin
    \/ DoStreamEncode
    \/ DoStreamVerify
    \/ StreamErase
    \/ DoStreamReconstruct
    \/ DoStreamReconstructData

SpecStream == StreamInit /\ [][StreamNext]_vars

----------------------------------------------------------------------------
(* The split/join scenario: StreamSplit of a byte stream into dataShards   *)
(* shard streams, then StreamJoin over them.  No codec call is involved,   *)
(* so the number of data shards can be large.                              *)

\* dataShards of the codec instances of the split/join scenario
SJShards == {1, 2, 3, 65}

\* sizes handed to StreamSplit in the split/join scenario
SJSizes == {1, 2, Align, Align + 1, SmallJoin - 1, SmallJoin, 65 * Align + 1}

SJInit ==
    /\ k \in SJShards
    /\ m = 1
    /\ backend \in {8, 16}
    /\ phase = "s_raw"
    /\ err = "nil"
    /\ vres = NoResult
    /\ idleMem
    /\ data = <<>> /\ parity = <<>> /\ absent = {} /\ writers = <<>> /\ outs = <<>>
    /\ joined = <<>> /\ seekable = FALSE
    /\ idleArgs
    /\ idleAux
    /\ \E s \in 1 .. NumSeeds, size \in SJSizes : raw = StreamPat(s, 0, size)

SJNext ==
    \/ DoStreamSplit
    \/ DoStreamJoin

SpecSJ == SJInit /\ [][SJNext]_vars

----------------------------------------------------------------------------
(* The constructor: New chooses the backend by the number of shards.       *)

\* the largest number of shards of the 8-bit backend
MaxShards8 == 256

\* the largest number of shards of the 16-bit backend
MaxShards16 == 65536

\* newFF8: the 8-bit codec, or an error
newFF8(dataShards, parityShards) ==
    IF dataShards <= 0 \/ parityShards <= 0 THEN [err |-> "ErrInvShardNum", backend |-> 0]
    ELSE IF dataShards + parityShards > MaxShards8 THEN [err |-> "ErrMaxShardNum", backend |-> 0]
    ELSE [err |-> "nil", backend |-> 8]

\* a 16-bit constructor without an upper limit on the number of shards
newFF16NoLimit(dataShards, parityShards) ==
    IF dataShards <= 0 \/ parityShards <= 0 THEN [err |-> "ErrInvShardNum", backend |-> 0]
    ELSE [err |-> "nil", backend |-> 16]

\* newFF16: the 16-bit codec, or an error.  Its code is not part of the
\* sources at hand; the limit is the one the specification gives
\* (MaxShardNum when the number of shards exceeds 65536), while the comment
\* of New16 speaks of at most 65535 shards.
newFF16(dataShards, parityShards) ==
    IF dataShards <= 0 \/ parityShards <= 0 THEN [err |-> "ErrInvShardNum", backend |-> 0]
    ELSE IF dataShards + parityShards > MaxShards16 THEN [err |-> "ErrMaxShardNum", backend |-> 0]
    ELSE [err |-> "nil", backend |-> 16]

New(dataShards, parityShards) ==
    IF dataShards <= 0 \/ parityShards <= 0 THEN [err |-> "ErrInvShardNum", backend |-> 0]
    ELSE IF dataShards + parityShards <= MaxShards8 THEN newFF8(dataShards, parityShards)
    ELSE newFF16(dataShards, parityShards)

\* the shard counts a caller hands to New
NewArgs == {-1, 0, 1, 2, 128, 255, 256, 257, 65535, 65536}

NewInit ==
    /\ k \in NewArgs
    /\ m \in NewArgs
    /\ backend = 0
    /\ phase = "n_args"
    /\ err = "nil"
    /\ vres = NoResult
    /\ idleMem
    /\ idleStreams
    /\ idleAux

DoNew ==
    /\ phase = "n_args"
    /\ backend' = New(k, m).backend
    /\ err' = New(k, m).err
    /\ phase' = "n_made"
    /\ UNCHANGED <<k, m, vres, memVars, strVars, auxVars>>

NewNext == DoNew

SpecNew == NewInit /\ [][NewNext]_vars

----------------------------------------------------------------------------
(* The multiply kernels and the radix-2 butterflies of the NEON build.     *)
(* The multiply tables and the assembly routines are not among the         *)
(* sources; they are modelled from the specification: the table of log_m   *)
(* multiplies by exp[log_m], and a wide routine processes the prefix of    *)
(* whole vectors of its input.                                             *)

\* bytes per step of the wide routines: done = (len(in) >> 5) << 5
VecWidth == 32

\* modulus: the largest logarithm, 2^w - 1
Modulus(be) == 2 ^ Width(be) - 1

\* expLUT: the element whose logarithm is log_m; the entry of the modulus is
\* that of 0, the element 1
Exp(be, log_m) ==
    LET RECURSIVE pw(_)
        pw(n) == IF n = 0 THEN 1 ELSE Mul(be, 2, pw(n - 1))
    IN pw(log_m % Modulus(be))

\* sliceXor(in, out), xorSliceNEON(in, out): out ^= in
sliceXor(in, out) ==
    [i \in 1 .. Len(out) |-> IF i <= Len(in) THEN Xor(out[i], in[i]) ELSE out[i]]

\* refMulAdd(x, y, log_m), refMulAdd8(x, y, log_m): x ^= y * exp[log_m]
refMulAdd(be, x, y, log_m) == LinComb(be, <<1, Exp(be, log_m)>>, <<x, y>>, Len(x))

\* galMulSlice(c, in, out): out = c * in
galMulSlice(c, in, out) ==
    LET done == (Len(in) \div VecWidth) * VecWidth
    IN [i \in 1 .. Len(out) |->
          IF i > Len(in) THEN out[i]
          ELSE IF c = 1 THEN in[i]
          ELSE IF i <= done THEN Mul(8, c, in[i])
          ELSE Mul(8, c, in[i])]

\* mulgf8(out, in, log_m): galMulNEON over the whole vectors, then the loop
\* over the remaining bytes
mulgf8(out, in, log_m) ==
    LET done == (Len(in) \div VecWidth) * VecWidth
    IN [i \in 1 .. Len(out) |->
          IF i > Len(in) THEN out[i]
          ELSE IF i <= done THEN Mul(8, Exp(8, log_m), in[i])
          ELSE Xor(out[i], Mul(8, Exp(8, log_m), in[i]))]

\* mulAdd8(out, in, log_m): galMulXorNEON over the whole vectors, then
\* refMulAdd8(in, out, log_m) over the remaining bytes
mulAdd8(out, in, log_m) ==
    LET done == (Len(in) \div VecWidth) * VecWidth
        tail == refMulAdd(8, Drop(in, done), Drop(out, done), log_m)
    IN [out |-> [i \in 1 .. Len(out) |->
                   IF i <= done THEN Xor(out[i], Mul(8, Exp(8, log_m), in[i])) ELSE out[i]],
        in  |-> [i \in 1 .. Len(in) |-> IF i <= done THEN in[i] ELSE tail[i - done]]]

\* 2-way butterfly forward, 16-bit
fftDIT2(x, y, log_m) ==
    Only({[x |-> x1, y |-> sliceXor(x1, y)] : x1 \in {refMulAdd(16, x, y, log_m)}})

\* 2-way butterfly forward, 8-bit
fftDIT28(x, y, log_m) ==
    Only({[x |-> r.out, y |-> sliceXor(r.out, r.in)] : r \in {mulAdd8(x, y, log_m)}})

\* 2-way butterfly inverse, 16-bit
ifftDIT2(x, y, log_m) ==
    Only({[x |-> refMulAdd(16, x, y1, log_m), y |-> y1] : y1 \in {sliceXor(x, y)}})

\* 2-way butterfly inverse, 8-bit
ifftDIT28(x, y, log_m) ==
    Only({[x |-> r.out, y |-> r.in] : r \in {mulAdd8(x, sliceXor(x, y), log_m)}})

(* The kernel scenario: one call of a kernel on two slices of equal       *)
(* length; x is the slice written first (out of the multiplies), y the    *)
(* other one (in of the multiplies).                                       *)

\* lengths of the slices handed to the 8-bit multiplies
KernelLens == {0, 1, VecWidth - 1, VecWidth, VecWidth + 1, Align, 2 * Align}

KernelInit ==
    /\ k = 0 /\ m = 0
    /\ backend \in {8, 16}
    /\ phase = "k_args"
    /\ err = "nil"
    /\ vres = NoResult
    /\ idleMem
    /\ idleStreams
    /\ blocks = <<>>
    /\ call = NoCall
    /\ \E s \in 0 .. NumSeeds - 1, n \in KernelLens, l \in 0 .. Modulus(backend),
          used \in BOOLEAN :
          /\ backend = 16 => (n > 0 /\ n % Align = 0)
          /\ kern = [op |-> "none", log_m |-> l,
                     x |-> IF used THEN Pat(s, 1, n) ELSE Zeros(n),
                     y |-> Pat(s, 2, n), rx |-> <<>>, ry |-> <<>>]

DoGalMulSlice ==
    /\ phase = "k_args" /\ backend = 8
    /\ kern' = [kern EXCEPT !.op = "galMulSlice",
                            !.rx = galMulSlice(Exp(8, kern.log_m), kern.y, kern.x),
                            !.ry = kern.y]
    /\ phase' = "k_done"
    /\ UNCHANGED <<cfgVars, err, vres, memVars, strVars, blocks, call>>

DoMulgf8 ==
    /\ phase = "k_args" /\ backend = 8
    /\ kern' = [kern EXCEPT !.op = "mulgf8",
                            !.rx = mulgf8(kern.x, kern.y, kern.log_m),
                            !.ry = kern.y]
    /\ phase' = "k_done"
    /\ UNCHANGED <<cfgVars, err, vres, memVars, strVars, blocks, call>>

\* the butterflies work on shards: whole 64-byte chunks
DoFftDIT2 ==
    /\ phase = "k_args" /\ Len(kern.x) > 0 /\ Len(kern.x) % Align = 0
    /\ LET r == IF backend = 16 THEN fftDIT2(kern.x, kern.y, kern.log_m)
                ELSE fftDIT28(kern.x, kern.y, kern.log_m)
       IN kern' = [kern EXCEPT !.op = IF backend = 16 THEN "fftDIT2" ELSE "fftDIT28",
                               !.rx = r.x, !.ry = r.y]
    /\ phase' = "k_done"
    /\ UNCHANGED <<cfgVars, err, vres, memVars, strVars, blocks, call>>

DoIfftDIT2 ==
    /\ phase = "k_args" /\ Len(kern.x) > 0 /\ Len(kern.x) % Align = 0
    /\ LET r == IF backend = 16 THEN ifftDIT2(kern.x, kern.y, kern.log_m)
                ELSE ifftDIT28(kern.x, kern.y, kern.log_m)
       IN kern' = [kern EXCEPT !.op = IF backend = 16 THEN "ifftDIT2" ELSE "ifftDIT28",
                               !.rx = r.x, !.ry = r.y]
    /\ phase' = "k_done"
    /\ UNCHANGED <<cfgVars, err, vres, memVars, strVars, blocks, call>>

KernelNext ==
    \/ DoGalMulSlice
    \/ DoMulgf8
    \/ DoFftDIT2
    \/ DoIfftDIT2

SpecKernel == KernelInit /\ [][KernelNext]_vars

----------------------------------------------------------------------------
(* A call of the 8-bit stream adaptor rsStreamFF8, step by step: the pool  *)
(* buffer it takes and returns, and, for an encode with concurrent I/O,    *)
(* the read and write tasks of every block.  The encode of the 16-bit      *)
(* adaptor rsStream16 runs the same tasks; it allocates its block buffer   *)
(* and brings the rows to the aligned size in its own way.                 *)

CallConfigs == {<<1, 1>>, <<2, 1>>, <<2, 2>>}

\* a channel that holds one result
ChanCapOne(n) == 1

\* res := make(chan readResult, len(readers)),
\* errs := make(chan error, len(writers))
ChanCap(n) == n

\* a collector that does not wait for its tasks
NoWait(ts) == TRUE

\* wg.Wait(): every task has called wg.Done
Waited(ts) == \A i \in 1 .. Len(ts) : ts[i] = "done"

\* a buffer that is put back by the return statement of the success path
ReleaseOnSuccess(c) ==
    [c EXCEPT !.puts = @ + (IF c.deferred /\ c.ret = "nil" THEN 1 ELSE 0)]

\* the deferred r.blockPool.Put(shards) runs when the call returns
Release(c) == [c EXCEPT !.puts = @ + (IF c.deferred THEN 1 ELSE 0)]

\* the go statements of a block: one task for each of n streams
Spawn(n) == [i \in 1 .. n |-> "run"]

\* the writers ws before anything was written to them
Fresh(ws) == [i \in 1 .. Len(ws) |-> [ws[i] EXCEPT !.b = <<>>]]

\* the input list in which the streams of E are absent
Lost(E) ==
    [i \in 1 .. k + m |-> IF i \in E THEN NilReader ELSE Reader((data \o parity)[i])]

\* the stream lists a caller hands to an operation of the adaptor
CallArgs(op) ==
    IF op = "encode"
    THEN {[ins |-> Readers(Take(data, c[1])),
           ws |-> WritersWith([j \in 1 .. c[2] |-> TRUE], f)]
             : c \in EncodeLists, f \in {0, 1}}
    ELSE IF op = "verify"
    THEN {[ins |-> Readers(Take(data \o parity, n)), ws |-> <<>>] : n \in {k + m, k + m - 1}}
    ELSE UNION {{[ins |-> Lost(E), ws |-> WritersWith([i \in 1 .. n |-> i \in W], f)]
                    : W \in {E, {1}}, n \in {k + m, k + m - 1}, f \in {0, 1}}
                : E \in {{1}, {k + m}, {1, k + m}}}

\* the readers whose Read returns an error: none, the first, or all
ReadFailures(op, ins) ==
    IF op \in {"encode", "verify"} /\ Len(ins) >= 1
    THEN {{}, {1}, 1 .. Len(ins)}
    ELSE {{}}

\* a codec instance of backend be and the streams of an earlier encode
CallStart(be) ==
    /\ \E c \in CallConfigs : k = c[1] /\ m = c[2]
    /\ backend = be
    /\ phase = "c_idle"
    /\ err = "nil"
    /\ vres = NoResult
    /\ idleMem
    /\ raw = <<>> /\ absent = {} /\ writers = <<>> /\ outs = <<>>
    /\ joined = <<>> /\ seekable = FALSE
    /\ idleArgs
    /\ idleAux
    /\ \E s \in 0 .. NumSeeds - 1, shape \in DataShapes(k) :
          /\ data = [i \in 1 .. k |-> StreamPat(s, i, shape[i])]
          /\ parity = Received((IF be = 8
                                 THEN encode8(k, m, Readers(data),
                                              Writers([j \in 1 .. m |-> TRUE]))
                                 ELSE encode16(k, m, Readers(data),
                                               Writers([j \in 1 .. m |-> TRUE]))).outs)

CallInit == CallStart(8)

\* the head of encode, verify, reconstruct and reconstructData: the list
\* lengths are checked, then the block buffer is taken from the pool and
\* its return is deferred; an encode with concurrent I/O starts the read
\* tasks of the first block.  The encode of the 16-bit adaptor allocates
\* its buffer (createSlice is AllocAligned) and defers nothing.
CallBegin ==
    /\ phase = "c_idle"
    /\ \E op \in IF backend = 8 THEN {"encode", "verify", "reconstruct", "reconstructData"}
                 ELSE {"encode"} :
       \E a \in CallArgs(op), conc \in (IF op = "encode" THEN BOOLEAN ELSE {FALSE}) :
       \E F \in ReadFailures(op, a.ins) :
          LET ok == IF op = "encode" THEN Len(a.ins) = k /\ Len(a.ws) = m
                    ELSE IF op = "verify" THEN Len(a.ins) = k + m
                    ELSE Len(a.ins) = k + m /\ Len(a.ws) = k + m
              c0 == [NoCall EXCEPT !.op = op, !.conc = conc, !.ins = a.ins, !.ws = a.ws,
                                   !.failR = F]
          IN /\ call' = IF ~ok THEN [c0 EXCEPT !.pc = "done", !.ret = "ErrTooFewShards"]
                        ELSE [c0 EXCEPT
                                !.gets = IF backend = 8 THEN 1 ELSE 0,
                                !.deferred = (backend = 8), !.iter = 1,
                                !.rows = [i \in 1 .. k + m |->
                                            Reslice(AllocAligned(k + m, BlockSize)[i],
                                                    BlockSize)],
                                !.pc = IF conc THEN "reading" ELSE "body",
                                !.rtasks = IF conc THEN Spawn(k) ELSE <<>>,
                                !.pend = IF conc THEN [i \in 1 .. k |-> <<>>] ELSE <<>>]
             /\ phase' = IF ok THEN "c_run" ELSE "c_done"
             /\ err' = IF ok THEN err ELSE "ErrTooFewShards"
    /\ UNCHANGED <<cfgVars, kern, blocks, vres, memVars, raw, data, parity, absent, writers,
                   outs, joined, seekable, argVars>>

\* what a call with sequential I/O does between its head and its return
Outcome(c) ==
    IF c.failR # {}
    THEN [err |-> "StreamReadError", ok |-> FALSE, outs |-> c.ws, blocks |-> <<>>]
    ELSE IF c.op = "verify"
    THEN Only({[err |-> v.err, ok |-> v.ok, outs |-> c.ws, blocks |-> v.blocks]
                 : v \in {verify8(k, m, c.ins)}})
    ELSE Only({[err |-> r.err, ok |-> FALSE, outs |-> r.outs, blocks |-> r.blocks]
                 : r \in {IF c.op = "encode"
                          THEN IF backend = 8 THEN encode8(k, m, c.ins, c.ws)
                               ELSE encode16(k, m, c.ins, c.ws)
                          ELSE IF c.op = "reconstruct" THEN reconstruct8(k, m, c.ins, c.ws)
                          ELSE reconstructData(8, k, m, c.ins, c.ws)}})

\* the block loop of a call with sequential I/O, up to its return statement
CallBody ==
    /\ phase = "c_run"
    /\ call.pc = "body"
    /\ \E r \in {Outcome(call)} :
          /\ call' = [call EXCEPT !.pc = "ret", !.ret = r.err, !.ok = r.ok, !.ws = r.outs]
          /\ blocks' = r.blocks
    /\ UNCHANGED <<cfgVars, kern, phase, err, vres, memVars, strVars>>

\* the read task of stream i up to its send: a nil reader leaves an empty
\* row, a read error is the result, otherwise io.ReadFull fills the row,
\* which keeps the length of a block, and the first task to get here sets
\* firstSize
ReadRun(i) ==
    /\ phase = "c_run"
    /\ i \in 1 .. Len(call.rtasks)
    /\ call.rtasks[i] = "run"
    /\ LET n == Min(BlockSize, Len(call.ins[i].b))
           row == IF Cap(call.rows[i]) < BlockSize THEN NewRow(BlockSize)
                  ELSE Reslice(call.rows[i], BlockSize)
       IN call' =
            IF call.ins[i].nil
            THEN [call EXCEPT !.rtasks[i] = "send",
                              !.rows[i] = Reslice(@, 0),
                              !.pend[i] = [size |-> 0, err |-> "nil", n |-> i]]
            ELSE IF i \in call.failR
            THEN [call EXCEPT !.rtasks[i] = "send",
                              !.rows[i] = row,
                              !.pend[i] = [size |-> 0, err |-> "ReadError", n |-> i]]
            ELSE [call EXCEPT !.rtasks[i] = "send",
                              !.rows[i] = ReadInto(row, Take(call.ins[i].b, n)),
                              !.ins[i] = Reader(Drop(call.ins[i].b, n)),
                              !.firstSize = IF @ = -1 THEN n ELSE @,
                              !.pend[i] = [size |-> n, err |-> "nil", n |-> i]]
    /\ UNCHANGED <<cfgVars, kern, blocks, phase, err, vres, memVars, strVars>>

\* res <- readResult{...}, then the deferred wg.Done: the send needs room
\* in the channel
ReadSend(i) ==
    /\ phase = "c_run"
    /\ i \in 1 .. Len(call.rtasks)
    /\ call.rtasks[i] = "send"
    /\ Len(call.ch) < ChanCap(Len(call.rtasks))
    /\ call' = [call EXCEPT !.rtasks[i] = "done", !.ch = Append(@, call.pend[i])]
    /\ UNCHANGED <<cfgVars, kern, blocks, phase, err, vres, memVars, strVars>>

\* the least member of a non-empty set of positions
Least(S) == CHOOSE i \in S : \A j \in S : i <= j

\* shardSizes[i] after the results were collected, -2 if there is none
sizeOf(ch, i) ==
    LET rs == {j \in 1 .. Len(ch) : ch[j].n = i}
    IN IF rs = {} THEN -2 ELSE ch[Least(rs)].size

\* readInputsConcurrent after wg.Wait, and encode up to the codec call:
\* the first error in the channel is returned; firstSize is the size; every
\* stream must have returned size bytes, and the rows before the first one
\* that did not are cut to size; the rows are brought to the aligned size
ReadCollect ==
    /\ phase = "c_run"
    /\ call.pc = "reading"
    /\ Waited(call.rtasks)
    /\ LET ch == call.ch
           bad == {j \in 1 .. Len(ch) : ch[j].err # "nil"}
           size == call.firstSize
           wrong == {i \in 1 .. k : sizeOf(ch, i) # size}
           checked == IF wrong = {} THEN k ELSE Least(wrong) - 1
           rows1 == [i \in 1 .. k + m |->
                       IF bad = {} /\ size # -1 /\ i <= checked
                       THEN Reslice(call.rows[i], size)
                       ELSE call.rows[i]]
           all == [i \in 1 .. k + m |->
                     IF backend = 8
                     THEN Reslice(IF rows1[i].len < AlignUp(size)
                                  THEN CopyNew(rows1[i], AlignUp(size)) ELSE rows1[i],
                                  AlignUp(size))
                     ELSE aligned16(rows1[i], i <= k, size, AlignUp(Even(16, size)))]
           e == IF bad # {} THEN ch[Least(bad)].err
                ELSE IF size = -1 THEN "nil"
                ELSE IF wrong # {}
                THEN IF sizeOf(ch, Least(wrong)) = -2 THEN "ErrShardNoData" ELSE "ErrShardSize"
                ELSE IF \A i \in 1 .. k : rows1[i].len = 0 THEN "ErrShardNoData"
                ELSE IF anyBad(all) THEN "panic"
                ELSE "go"
           lens == [i \in 1 .. k |-> IF call.ins[i].nil THEN -1 ELSE sizeOf(ch, i)]
       IN /\ call' = IF e = "go"
                     THEN [call EXCEPT !.pc = "codec", !.rows = all, !.size = size]
                     ELSE [call EXCEPT !.pc = "ret", !.ret = e, !.rows = rows1]
          /\ blocks' = Append(blocks,
                              [size |-> IF e \in {"go", "ErrShardNoData"} /\ wrong = {}
                                        THEN size ELSE 0,
                               lens |-> lens,
                               shards |-> IF e = "go" THEN RowBytes(all) ELSE <<>>])
    /\ UNCHANGED <<cfgVars, kern, phase, err, vres, memVars, strVars>>

\* r.rs.Encode(shards); on success the write tasks of the block are started
Codec ==
    /\ phase = "c_run"
    /\ call.pc = "codec"
    /\ \E enc \in {leopard_encode(backend, k, m, RowBytes(call.rows))} :
          call' = IF enc.err # "nil" THEN [call EXCEPT !.pc = "ret", !.ret = enc.err]
                  ELSE [call EXCEPT !.pc = "writing",
                                    !.rows = withParity(call.rows, k, enc.shards),
                                    !.coded = call.iter,
                                    !.wtasks = Spawn(m),
                                    !.pend = [j \in 1 .. m |-> <<>>],
                                    !.ch = <<>>]
    /\ UNCHANGED <<cfgVars, kern, blocks, phase, err, vres, memVars, strVars>>

\* the write task of parity stream j up to its send: the row is written in
\* its aligned size, from a copy if it is shorter
WriteRun(j) ==
    /\ phase = "c_run"
    /\ j \in 1 .. Len(call.wtasks)
    /\ call.wtasks[j] = "run"
    /\ LET alignedSize == AlignUp(call.size)
           src == IF call.rows[k + j].len < alignedSize
                  THEN CopyNew(call.rows[k + j], alignedSize) ELSE call.rows[k + j]
       IN call' =
            IF call.ws[j].nil
            THEN [call EXCEPT !.wtasks[j] = "send",
                              !.pend[j] = [size |-> 0, err |-> "nil", n |-> j]]
            ELSE IF call.ws[j].fails
            THEN [call EXCEPT !.wtasks[j] = "send",
                              !.rows[k + j] = src,
                              !.pend[j] = [size |-> 0, err |-> "StreamWriteError", n |-> j]]
            ELSE [call EXCEPT !.wtasks[j] = "send",
                              !.rows[k + j] = src,
                              !.ws[j] = Write(@, Take(src.arr, alignedSize)),
                              !.pend[j] = [size |-> 0, err |-> "nil", n |-> j]]
    /\ UNCHANGED <<cfgVars, kern, blocks, phase, err, vres, memVars, strVars>>

\* errs <- err, then the deferred wg.Done
WriteSend(j) ==
    /\ phase = "c_run"
    /\ j \in 1 .. Len(call.wtasks)
    /\ call.wtasks[j] = "send"
    /\ Len(call.ch) < ChanCap(Len(call.wtasks))
    /\ call' = [call EXCEPT !.wtasks[j] = "done", !.ch = Append(@, call.pend[j])]
    /\ UNCHANGED <<cfgVars, kern, blocks, phase, err, vres, memVars, strVars>>

\* writeOutputsConcurrent after wg.Wait: the first error in the channel is
\* returned, otherwise the read tasks of the next block are started
WriteCollect ==
    /\ phase = "c_run"
    /\ call.pc = "writing"
    /\ Waited(call.wtasks)
    /\ LET bad == {j \in 1 .. Len(call.ch) : call.ch[j].err # "nil"}
       IN call' = IF bad # {} THEN [call EXCEPT !.pc = "ret", !.ret = call.ch[Least(bad)].err]
                  ELSE [call EXCEPT !.pc = "reading",
                                    !.iter = @ + 1,
                                    !.rtasks = Spawn(k),
                                    !.pend = [i \in 1 .. k |-> <<>>],
                                    !.ch = <<>>,
                                    !.firstSize = -1]
    /\ UNCHANGED <<cfgVars, kern, blocks, phase, err, vres, memVars, strVars>>

\* the return of the call: the deferred Put runs, the caller has the error
\* and what the writers received
CallReturn ==
    /\ phase = "c_run"
    /\ call.pc = "ret"
    /\ call' = [Release(call) EXCEPT !.pc = "done"]
    /\ phase' = "c_done"
    /\ err' = call.ret
    /\ outs' = Received(call.ws)
    /\ vres' = IF call.op = "verify" THEN [ok |-> call.ok, err |-> call.ret] ELSE vres
    /\ UNCHANGED <<cfgVars, kern, blocks, memVars, raw, data, parity, absent, writers,
                   joined, seekable, argVars>>

CallNext ==
    \/ CallBegin
    \/ CallBody
    \/ \E i \in 1 .. k : ReadRun(i)
    \/ \E i \in 1 .. k : ReadSend(i)
    \/ ReadCollect
    \/ Codec
    \/ \E j \in 1 .. m : WriteRun(j)
    \/ \E j \in 1 .. m : WriteSend(j)
    \/ WriteCollect
    \/ CallReturn

SpecCall == CallInit /\ [][CallNext]_vars

\* the stream scenario and the calls of both adaptors in both I/O modes
IOInit == StreamInit \/ CallStart(8) \/ CallStart(16)

IONext == StreamNext \/ CallNext

SpecIO == IOInit /\ [][IONext]_vars

----------------------------------------------------------------------------
(* Claims about the in-memory codec *)

\* C7 as stated: Reconstruct on an array with more than parityShards absent
\* shards returns ErrTooFewShards and leaves the array unchanged.
C7_Original ==
    (phase = "m_recon" /\ Cardinality(AbsentOf(pre)) > m)
        => (err = "ErrTooFewShards" /\ shards = pre)

\* C7 amended: Reconstruct on an array with more than parityShards absent
\* shards and at least one present shard returns ErrTooFewShards; with every
\* shard absent it returns ErrShardNoData; in both cases the array is left
\* unchanged.
C7_TooFewShards ==
    (phase = "m_recon" /\ Cardinality(AbsentOf(pre)) > m)
        => /\ shards = pre
           /\ err = IF AbsentOf(pre) = 1 .. k + m THEN "ErrShardNoData"
                    ELSE "ErrTooFewShards"

\* one shard more than the code tolerates was erased, one is still present,
\* and Reconstruct has refused
C7_Witness ==
    /\ phase = "m_recon"
    /\ Cardinality(AbsentOf(pre)) = m + 1
    /\ AbsentOf(pre) # 1 .. k + m
    /\ err = "ErrTooFewShards"
    /\ shards = pre

----------------------------------------------------------------------------
(* Claims about the stream adaptor *)

\* the shard streams all have the same length, a multiple of 64
EqualAligned ==
    \A i \in 1 .. Len(data) : Len(data[i]) = Len(data[1]) /\ Len(data[i]) % Align = 0

\* the shard arrays an in-memory caller would hold after the erasure
MemLayout ==
    [i \in 1 .. k + m |-> IF i \in absent THEN <<>> ELSE (data \o parity)[i]]

\* C3: for shard streams made by StreamSplit then StreamEncode and a set E of
\* at most parityShards erased positions (data or parity), given as nil inputs
\* with a writer at exactly the positions of E, StreamReconstruct succeeds and
\* writes to each output the bytes of the original shard at that position,
\* which are the bytes in-memory Reconstruct leaves there.
C3_StreamReconstructRestores ==
    (/\ phase = "s_recon"
     /\ raw # <<>>
     /\ EqualAligned
     /\ absent # {}
     /\ Cardinality(absent) <= m
     /\ writers = [i \in 1 .. k + m |-> i \in absent])
        => /\ err = "nil"
           /\ \A i \in absent :
                 /\ outs[i] = (data \o parity)[i]
                 /\ outs[i] = leopard_reconstruct(backend, k, m, MemLayout, FALSE).shards[i]

\* C4: when at most parityShards input streams are absent,
\* StreamReconstructData succeeds and writes to every writer at an absent
\* data position the original bytes of that data shard, whether or not the
\* other absent positions have writers.
C4_StreamReconstructDataRestores ==
    (/\ phase = "s_recondata"
     /\ EqualAligned
     /\ Cardinality(absent) <= m
     /\ Len(writers) = k + m
     /\ \E i \in absent : i <= k /\ writers[i])
        => /\ err = "nil"
           /\ \A i \in absent : (i <= k /\ writers[i]) => outs[i] = data[i]

\* C5: StreamSplit of size bytes into dataShards writers followed by
\* StreamJoin over the resulting shard streams with outSize = size succeeds
\* and writes the original bytes.
C5_SplitJoinIdentity ==
    (phase = "s_joined" /\ writers = [i \in 1 .. k |-> TRUE])
        => (err = "nil" /\ joined = raw)

\* C6: for dataShards non-nil data streams that are not all empty, of any
\* lengths, StreamVerify over the data streams and the parity streams that a
\* successful StreamEncode wrote returns true with no error.
C6_StreamVerifyAfterStreamEncode ==
    (phase = "s_encoded" /\ vres # NoResult) => vres = [ok |-> TRUE, err |-> "nil"]

\* C8: when more than parityShards input streams are absent (and at least
\* one is present), StreamReconstruct and StreamReconstructData return
\* ErrTooFewShards and write no byte to any output, whichever absent
\* positions have writers.
C8_StreamTooFewShards ==
    (/\ phase \in {"s_recon", "s_recondata"}
     /\ EqualAligned
     /\ Cardinality(absent) > m
     /\ absent # 1 .. k + m
     /\ Len(writers) = k + m)
        => /\ err = "ErrTooFewShards"
           /\ \A i \in 1 .. Len(outs) : outs[i] = <<>>

\* C10: no stream operation panics, whatever reader and writer lists and
\* stream lengths the caller supplies: every failure is a returned error.
C10_NoStreamPanic ==
    err # "panic" /\ (vres # NoResult => vres.err # "panic")

\* C11: StreamReconstruct and StreamReconstructData return
\* ErrReconstructMismatch and write nothing whenever some position of the
\* n-long lists has both an input stream and an output writer.
C11_ReconstructMismatch ==
    (/\ phase \in {"s_recon", "s_recondata"}
     /\ Len(writers) = k + m
     /\ \E i \in 1 .. k + m : i \notin absent /\ writers[i])
    => /\ err = "ErrReconstructMismatch"
       /\ \A i \in 1 .. Len(outs) : outs[i] = <<>>

\* C12: StreamEncode, StreamVerify, StreamReconstruct and
\* StreamReconstructData return ErrShardNoData when every input stream is at
\* EOF with zero bytes read on the first read.
C12_EmptyStreamsShardNoData ==
    /\ phase = "s_empty_encoded" => err = "ErrShardNoData"
    /\ (phase = "s_empty" /\ vres # NoResult) => vres = [ok |-> FALSE, err |-> "ErrShardNoData"]
    /\ (/\ phase \in {"s_empty_recon", "s_empty_recondata"}
        /\ Len(writers) = k + m
        /\ absent # 1 .. k + m
        /\ \A i \in 1 .. k + m : writers[i] => i \in absent)
       => err = "ErrShardNoData"

\* C13: StreamSplit with size > 0 fails with ErrShortData whenever the
\* source ends before size bytes have been read from it, wherever in the
\* k shards it runs out, the last shard included.
C13_SplitShortData ==
    (/\ phase = "s_short"
     /\ argSize > Len(raw)
     /\ writers = [i \in 1 .. k |-> TRUE])
    => err = "ErrShortData"

\* C14: a successful StreamJoin writes exactly outSize bytes to the
\* destination, and StreamJoin returns ErrShortData whenever the first k
\* streams together hold fewer than outSize bytes.
C14_JoinExactOrShort ==
    phase \in {"s_joined", "s_joined_any"}
    => /\ err = "nil" => Len(joined) = argSize
       /\ (~dstNil /\ argSize > 0 /\ Len(Concat(data)) < argSize) => err = "ErrShortData"

\* C15: handed all n = k + m streams, StreamJoin reads from no stream at a
\* position beyond the k data streams, for every outSize > 0.
C15_JoinReadsOnlyData ==
    (/\ phase \in {"s_joined", "s_joined_any"}
     /\ handed = k + m
     /\ argSize > 0)
    => reads \subseteq 1 .. k

\* the number of bytes a stream of len bytes delivers in block iteration b
BlockLen(len, b) == Max(0, Min(BlockSize, len - (b - 1) * BlockSize))

\* the logical size of block iteration b over streams of the lengths lens:
\* the length of the first stream that delivers bytes, 0 if none does
LogicalSize(lens, b) ==
    LET some == {i \in 1 .. Len(lens) : BlockLen(lens[i], b) > 0}
    IN IF some = {} THEN 0
       ELSE BlockLen(lens[CHOOSE i \in some : \A j \in some : i <= j], b)

\* the bytes an output receives over all block iterations: the logical size
\* of each, rounded up to the alignment for a parity output
ExpectedBytes(lens, isParity) ==
    LET RECURSIVE sum(_)
        sum(b) == IF LogicalSize(lens, b) = 0 THEN 0
                  ELSE (IF isParity THEN AlignUp(LogicalSize(lens, b))
                        ELSE LogicalSize(lens, b)) + sum(b + 1)
    IN sum(1)

\* lengths of the input streams of the reconstruct calls, 0 for a nil input
InputLens == [i \in 1 .. k + m |-> IF i \in absent THEN 0 ELSE Len((data \o parity)[i])]

\* C16: in every block iteration with logical size s, StreamEncode and
\* StreamReconstruct write s rounded up to a multiple of 64 bytes to each
\* parity output, and the reconstruct calls write s bytes to each
\* reconstructed data output.
C16_BytesPerOutput ==
    /\ phase = "s_encoded"
       => \A j \in 1 .. m :
             Len(parity[j]) = ExpectedBytes([i \in 1 .. k |-> Len(data[i])], TRUE)
    /\ (phase \in {"s_recon", "s_recondata"} /\ err = "nil" /\ Len(writers) = k + m)
       => \A i \in 1 .. k + m :
             (writers[i] /\ (phase = "s_recon" \/ i <= k))
             => Len(outs[i]) = ExpectedBytes(InputLens, i > k)

C16_Witness ==
    /\ phase = "s_recon"
    /\ err = "nil"
    /\ \E i \in 1 .. k, j \in k + 1 .. k + m :
          /\ writers[i] /\ writers[j]
          /\ Len(outs[i]) % Align # 0
          /\ Len(outs[j]) = AlignUp(Len(outs[i]))

\* C17: after a successful StreamSplit all k shard writers have received
\* the same number of bytes, a multiple of 64, for every k and every
\* size > 0.
C17_SplitEqualShards ==
    (/\ phase \in {"s_data", "s_short"}
     /\ raw # <<>>
     /\ argSize > 0
     /\ err = "nil")
    => \A i \in 1 .. k : Len(outs[i]) = Len(outs[1]) /\ Len(outs[i]) % Align = 0

\* C18: the error of an underlying Writer that fails during a stream
\* operation reaches the caller wrapped in a StreamWriteError, never as the
\* writer's own error value.
C18_IOErrorsWrapped ==
    (phase = "s_io" /\ err \notin {"nil", "panic", "ErrShortData", "ErrTooFewShards",
                                     "ErrShardNoData", "ErrReconstructMismatch"})
    => err = "StreamWriteError"

\* no output of the last call has received a byte
NoBytesWritten == \A i \in 1 .. Len(outs) : outs[i] = <<>>

\* no block of the streams was read by the last stream call
NoStreamRead == blocks = <<>>

\* the calls with a wrong number of streams: StreamEncode with inputs # k or
\* outputs # m, StreamVerify with shards # n, StreamReconstruct with
\* inputs # n or outputs # n, StreamSplit with writers # k; each returns
\* ErrTooFewShards and has read and written nothing
WrongCounts ==
    /\ (phase = "s_args" /\ vres = NoResult)
       => err = "ErrTooFewShards" /\ NoBytesWritten /\ NoStreamRead
    /\ (phase = "s_args" /\ vres # NoResult)
       => vres = [ok |-> FALSE, err |-> "ErrTooFewShards"] /\ NoStreamRead
    /\ (phase = "s_recon" /\ Len(writers) # k + m)
       => err = "ErrTooFewShards" /\ NoBytesWritten /\ NoStreamRead
    /\ (phase \in {"s_failed", "s_short"} /\ data = <<>> /\ Len(writers) # k)
       => err = "ErrTooFewShards" /\ NoBytesWritten /\ reads = {}

\* C19 as stated: a wrong number of streams yields ErrTooFewShards, a nil
\* destination of StreamJoin yields ErrNilWriter and outSize <= 0 yields
\* ErrSize, each before any stream is read or written.
C19_Original ==
    /\ WrongCounts
    /\ phase \in {"s_joined", "s_joined_any"}
       => /\ dstNil => (err = "ErrNilWriter" /\ joined = <<>> /\ reads = {})
          /\ argSize <= 0 => (err = "ErrSize" /\ joined = <<>> /\ reads = {})

\* C19, amended: a wrong number of streams yields ErrTooFewShards, a nil
\* destination of StreamJoin yields ErrNilWriter, an empty stream list with
\* a destination that is not nil yields ErrTooFewShards, and outSize <= 0
\* with a destination that is not nil and at least one stream yields
\* ErrSize, each before any stream is read or written.
C19_ArgumentErrors ==
    /\ WrongCounts
    /\ phase \in {"s_joined", "s_joined_any"}
       => /\ dstNil => (err = "ErrNilWriter" /\ joined = <<>> /\ reads = {})
          /\ (~dstNil /\ handed = 0)
                => (err = "ErrTooFewShards" /\ joined = <<>> /\ reads = {})
          /\ (~dstNil /\ handed > 0 /\ argSize <= 0)
                => (err = "ErrSize" /\ joined = <<>> /\ reads = {})

\* StreamJoin was handed a destination, the data streams and outSize 0, and
\* has returned ErrSize without reading or writing
C19_Witness ==
    /\ phase = "s_joined_any"
    /\ ~dstNil /\ argSize <= 0 /\ handed > 0
    /\ joined = <<>> /\ reads = {}
    /\ data # <<>> /\ \A i \in 1 .. k : data[i] # <<>>
    /\ err = "ErrSize"

----------------------------------------------------------------------------
(* Claims about the constructor *)

C26_ReconstructWritesOnlyAbsent ==
    phase \in {"s_recon", "s_recondata", "s_empty_recon", "s_empty_recondata"} =>
        /\ \A i \in 1 .. Len(outs) :
              outs[i] # <<>> => writers[i] /\ i \in absent
        /\ phase \in {"s_recondata", "s_empty_recondata"} =>
              \A i \in 1 .. Len(outs) : i > k => outs[i] = <<>>

\* StreamReconstructData was handed a writer at a parity position and has
\* written an absent data shard
C26_Witness ==
    /\ phase = "s_recondata"
    /\ err = "nil"
    /\ \E i \in 1 .. Len(writers) : i > k /\ writers[i] /\ i \in absent
    /\ \E i \in 1 .. k : outs[i] # <<>>

----------------------------------------------------------------------------
(* Claims about the block loop of the stream calls *)

\* the lowest position of a reader that is not nil, 0 if every reader is nil
firstPresent(lens) ==
    IF \A i \in 1 .. Len(lens) : lens[i] = -1 THEN 0
    ELSE CHOOSE i \in 1 .. Len(lens) :
            lens[i] # -1 /\ \A j \in 1 .. i - 1 : lens[j] = -1

\* C24: in each block iteration of a stream call in which a stream returns
\* bytes, the size s of the iteration is the number of bytes that the read
\* of the lowest-indexed non-nil input stream returned.
C24_SizeIsFirstPresentRead ==
    \A b \in 1 .. Len(blocks) :
        (\E i \in 1 .. Len(blocks[b].lens) : blocks[b].lens[i] > 0) =>
            blocks[b].size = blocks[b].lens[firstPresent(blocks[b].lens)]

\* C25: immediately before every codec call of a stream call all non-empty
\* rows have one common length, a multiple of 64, and in every row read
\* from a stream the bytes beyond what the read returned are zero.
C25_RowsAlignedAndZeroPadded ==
    \A b \in 1 .. Len(blocks) :
        LET sh == blocks[b].shards
            lens == blocks[b].lens
        IN sh # <<>> =>
              /\ \A i, j \in 1 .. Len(sh) :
                    (sh[i] # <<>> /\ sh[j] # <<>>) => Len(sh[i]) = Len(sh[j])
              /\ \A i \in 1 .. Len(sh) : Len(sh[i]) % Align = 0
              /\ \A i \in 1 .. Len(lens) :
                    lens[i] >= 0 =>
                       \A p \in lens[i] + 1 .. Len(sh[i]) : sh[i][p] = 0

\* an encode of the 16-bit adaptor with concurrent I/O has read a second
\* block that is shorter than the first into rows that still held the bytes
\* of the first, and has handed the codec rows that are zero beyond the read
C25_Witness ==
    /\ phase = "c_run" /\ backend = 16
    /\ call.conc /\ call.pc = "codec" /\ call.iter = 2
    /\ \E i \in 1 .. k : \E p \in 1 .. Len(data[i]) : data[i][p] # 0
    /\ LET b == blocks[Len(blocks)]
       IN /\ b.shards # <<>>
          /\ \E i \in 1 .. Len(b.lens) :
                0 < b.lens[i] /\ b.lens[i] < Len(b.shards[i])

\* with sequential I/O: a codec call was made on rows of which one was read
\* short of the size of the iteration and zero-extended, and the size was no
\* multiple of 64
C25_SequentialCase ==
    /\ phase \in {"s_encoded", "s_recon", "s_recondata"}
    /\ err = "nil"
    /\ \E b \in 1 .. Len(blocks) :
          /\ blocks[b].shards # <<>>
          /\ \E i \in 1 .. Len(blocks[b].lens) :
                /\ blocks[b].lens[i] >= 0
                /\ blocks[b].lens[i] < blocks[b].size
                /\ blocks[b].size < Len(blocks[b].shards[i])

\* the streams the last stream call read: the data streams for an encode,
\* the streams left after the erasure for a reconstruction, all streams
\* otherwise
streamsRead ==
    IF phase \in {"s_encoded", "s_failed", "s_empty_encoded"} /\ vres = NoResult THEN data
    ELSE IF phase \in {"s_recon", "s_recondata", "s_empty_recon", "s_empty_recondata"}
    THEN [i \in 1 .. Len(data \o parity) |-> IF i \in absent THEN <<>> ELSE (data \o parity)[i]]
    ELSE data \o parity

\* the length of the longest of the streams ss
longest(ss) ==
    IF ss = <<>> THEN 0
    ELSE CHOOSE l \in {Len(ss[i]) : i \in 1 .. Len(ss)} :
            \A i \in 1 .. Len(ss) : Len(ss[i]) <= l

\* C28: a stream encode, verify or reconstruct call over streams of finite
\* length ends: the block loop leaves in the first iteration in which no
\* stream returns a byte, after at most ceil(L / B) + 1 iterations, L the
\* length of the longest input and B the block size.
C28_LoopEndsAtEOF ==
    /\ Len(blocks) <= (longest(streamsRead) + BlockSize - 1) \div BlockSize + 1
    /\ \A b \in 1 .. Len(blocks) - 1 :
          \E i \in 1 .. Len(blocks[b].lens) : blocks[b].lens[i] > 0

\* a call over a stream longer than a block has run through the last
\* partial block and has left the loop in the iteration after it
C28_Witness ==
    /\ phase \in {"s_encoded", "s_recon"}
    /\ err = "nil"
    /\ longest(streamsRead) > BlockSize
    /\ Len(blocks) = (longest(streamsRead) + BlockSize - 1) \div BlockSize + 1
    /\ \A i \in 1 .. Len(blocks[Len(blocks)].lens) : blocks[Len(blocks)].lens[i] <= 0

----------------------------------------------------------------------------
(* Claims about a call of the 8-bit stream adaptor *)

\* C22: for the same input streams an encode with concurrent reads and
\* writes returns the same result (success or the same error) and writes
\* the same bytes to every parity output as an encode with sequential I/O,
\* whichever read task completes first.
C22_ConcurrentEncodeAsSequential ==
    (phase = "c_done" /\ call.op = "encode" /\ call.conc /\ call.gets = 1
        /\ call.failR = {}) =>
        \E r \in {encode8(k, m, Readers(data), Fresh(call.ws))} :
            err = r.err /\ outs = Received(r.outs)

\* C23: within a call with concurrent I/O the blocks are handled one after
\* another: every read of a block is complete before the codec is called,
\* the codec call is complete before an output of the block is written,
\* and every write of the block is complete before a read of the next
\* block starts.
C23_BlocksInStrictOrder ==
    (phase \in {"c_run", "c_done"} /\ call.conc) =>
        /\ call.pc = "reading" =>
              /\ \A j \in 1 .. Len(call.wtasks) : call.wtasks[j] = "done"
              /\ call.coded = call.iter - 1
        /\ call.pc = "codec" =>
              /\ \A i \in 1 .. Len(call.rtasks) : call.rtasks[i] = "done"
              /\ \A j \in 1 .. Len(call.wtasks) : call.wtasks[j] = "done"
              /\ call.coded = call.iter - 1
        /\ call.pc = "writing" =>
              /\ \A i \in 1 .. Len(call.rtasks) : call.rtasks[i] = "done"
              /\ call.coded = call.iter

\* a read of the second block has been made, after the parity of the first
\* block was written
C23_Witness ==
    /\ phase = "c_run"
    /\ call.conc
    /\ call.pc = "reading"
    /\ call.iter = 2
    /\ \E i \in 1 .. Len(call.rtasks) : call.rtasks[i] # "run"
    /\ \A j \in 1 .. Len(call.ws) : call.ws[j].b # <<>>

\* C27: in a call with concurrent I/O every read and write task of a block
\* has ended when the call returns, on success and on error, and a task
\* that has its result finds room in the channel, also when several streams
\* fail in one block.
C27_TasksEndBeforeReturn ==
    (phase \in {"c_run", "c_done"} /\ call.conc) =>
        /\ call.pc \in {"ret", "done"} =>
              /\ \A i \in 1 .. Len(call.rtasks) : call.rtasks[i] = "done"
              /\ \A j \in 1 .. Len(call.wtasks) : call.wtasks[j] = "done"
        /\ \A i \in 1 .. Len(call.rtasks) :
              call.rtasks[i] = "send" => Len(call.ch) < ChanCap(Len(call.rtasks))
        /\ \A j \in 1 .. Len(call.wtasks) :
              call.wtasks[j] = "send" => Len(call.ch) < ChanCap(Len(call.wtasks))

\* two streams failed in the same block and the call has returned the error
C27_Witness ==
    /\ phase = "c_done"
    /\ call.conc
    /\ call.failR = {1, 2}
    /\ err = "ReadError"
    /\ Len(call.ch) = 2
    /\ \A i \in 1 .. Len(call.rtasks) : call.rtasks[i] = "done"

\* C29: the block buffer that encode, verify, reconstruct and
\* reconstructData of the 8-bit adaptor take from the pool is put back
\* exactly once on every exit path, and not before the call has ended.
C29_BufferReturnedOnce ==
    phase \in {"c_run", "c_done"} =>
        /\ call.gets <= 1
        /\ call.pc # "done" => call.puts = 0
        /\ call.pc = "done" => call.puts = call.gets
        /\ (call.pc = "done" /\ call.ret # "ErrTooFewShards") => call.gets = 1

\* a reconstruction has left on an error after it took the buffer, and has
\* put it back
C29_Witness ==
    /\ phase = "c_done"
    /\ call.op = "reconstruct"
    /\ err \notin {"nil", "ErrTooFewShards"}
    /\ call.gets = 1
    /\ call.puts = 1

----------------------------------------------------------------------------
(* Claims about the kernels *)

\* C21: for every constant and every input length, also one that is no
\* multiple of the vector width, mulgf8(out, in, c) leaves out[i] = c * in[i]
\* for all i, whatever out held before.
C21_Mulgf8IsScalarMultiply ==
    (phase = "k_done" /\ kern.op = "mulgf8") =>
        \A i \in 1 .. Len(kern.y) :
            kern.rx[i] = Mul(8, Exp(8, kern.log_m), kern.y[i])

\* C30: in fftDIT2, ifftDIT2, fftDIT28 and ifftDIT28 a twiddle equal to the
\* modulus performs only the XOR step (y ^= x): x is left as it was, no
\* multiple of an operand is added to the other.
C30_ModulusIsPureXor ==
    (phase = "k_done" /\ kern.op \in {"fftDIT2", "ifftDIT2", "fftDIT28", "ifftDIT28"}
        /\ kern.log_m = Modulus(backend)) =>
        (kern.rx = kern.x /\ kern.ry = sliceXor(kern.x, kern.y))

====
